---------------------------- MODULE Spec2Model ----------------------------
(***************************************************************************)
(* A model of bevy_ecss: the style sheet asset (stylesheet.rs), the        *)
(* per-property parse cache and apply pass (property/mod.rs), the built-in *)
(* properties (property/impls.rs) and the system schedule (lib.rs).        *)
(*                                                                         *)
(* The systems prepare, watch_tracked_entities and clear_state and the     *)
(* style sheet parser live in files that are not part of the sources; they *)
(* are modelled from the written specification (sections 4.2, 4.3 and 5).  *)
(*                                                                         *)
(* f32 values are modelled by small naturals.  Rust enums are records      *)
(* with a tag field.                                                       *)
(***************************************************************************)
EXTENDS Integers, Sequences, FiniteSets, Bags, TLC

VARIABLES
    assets,       \* Assets<StyleSheetAsset>: asset id -> document, or NoAsset
    source,       \* ghost: the content text each loaded asset was parsed from
    caps,         \* host object population: entity -> capabilities it carries
    changedCaps,  \* capability names changed since the last Change-Detection
    pendingDocs,  \* asset ids loaded or replaced since the last Change-Detection
    sheets,       \* the resource StyleSheetState
    local,        \* per property: Local<PropertyMeta<P>>
    style,        \* entity -> its Style component (with Node), or NoStyle
    ran,          \* systems that have run in the current frame, in order
    applyLog,     \* ghost: the calls of Property::apply made in the current frame
    parseCalls,   \* ghost: bag of the calls of Property::parse made so far
    cacheHits,    \* ghost: the lookups of the current frame that get_or_parse
                  \* answered from a stored entry
    replaced,     \* ghost: the hashes of the documents that an apply pass has gone
                  \* through and that were then replaced by a document of another hash
    panicked,     \* whether an unwrap or expect of the code has panicked
    loads,        \* number of asset loads so far
    hostChanges,  \* number of host capability changes so far
    fnArgs,       \* pure-function specifications: the inputs drawn
    fnResult      \* pure-function specifications: the result computed

vars == <<assets, source, caps, changedCaps, pendingDocs, sheets, local, style,
          ran, applyLog, parseCalls, cacheHits, replaced, panicked, loads,
          hostChanges, fnArgs, fnResult>>

mainVars == <<assets, source, caps, changedCaps, pendingDocs, sheets, local,
              style, ran, applyLog, parseCalls, cacheHits, replaced, panicked,
              loads, hostChanges>>

-----------------------------------------------------------------------------
(* Bounds of the model *)

\* most asset loads (first loads and hot reloads) in one behaviour
MaxLoads == 3

\* most capability changes the host makes in one behaviour
MaxHostChanges == 1

\* longest rule list drawn for get_properties
MaxRules == 3

\* longest token list drawn for a declaration
MaxTokens == 2

\* most apply passes of text-align over one document
MaxPasses == 2

\* longest token list drawn for rect and grid_placement
MaxValues == 5

-----------------------------------------------------------------------------
(* Option<T> and Result<T, E> *)

None == [tag |-> "None"]

Some(v) == [tag |-> "Some", v |-> v]

Ok(v) == [ok |-> TRUE, value |-> v]

Err(e) == [ok |-> FALSE, error |-> e]

-----------------------------------------------------------------------------
(* PropertyToken and Val *)

Percentage(n) == [tok |-> "Percentage", n |-> n]

Dimension(n) == [tok |-> "Dimension", n |-> n]

VMin(n) == [tok |-> "VMin", n |-> n]

VMax(n) == [tok |-> "VMax", n |-> n]

Vh(n) == [tok |-> "Vh", n |-> n]

Vw(n) == [tok |-> "Vw", n |-> n]

Fr(n) == [tok |-> "Fr", n |-> n]

Number(n) == [tok |-> "Number", n |-> n]

Identifier(id) == [tok |-> "Identifier", id |-> id]

\* the text of a hash token is kept as the sequence of its characters
Hash(hash) == [tok |-> "Hash", hash |-> hash]

Function(fname, args) == [tok |-> "Function", name |-> fname, args |-> args]

Px(n) == [val |-> "Px", n |-> n]

Percent(n) == [val |-> "Percent", n |-> n]

ValAuto == [val |-> "Auto"]

\* a closure of val that takes Percentage and Dimension tokens only
val_token_lengths_only(token) ==
    CASE token.tok = "Percentage" -> Some(Percent(token.n))
      [] token.tok = "Dimension" -> Some(Px(token.n))
      [] OTHER -> None

\* the closure of PropertyValues::val, on one token
val_token(token) ==
    CASE token.tok = "Percentage" -> Some(Percent(token.n))
      [] token.tok = "Dimension" -> Some(Px(token.n))
      [] token.tok = "VMin" -> Some([val |-> "VMin", n |-> token.n])
      [] token.tok = "VMax" -> Some([val |-> "VMax", n |-> token.n])
      [] token.tok = "Vh" -> Some([val |-> "Vh", n |-> token.n])
      [] token.tok = "Vw" -> Some([val |-> "Vw", n |-> token.n])
      [] token.tok = "Identifier" /\ token.id = "auto" -> Some(ValAuto)
      [] OTHER -> None

RECURSIVE find_map_val(_, _)
find_map_val(values, i) ==
    IF i > Len(values) THEN None
    ELSE IF val_token(values[i]) # None THEN val_token(values[i])
    ELSE find_map_val(values, i + 1)

\* PropertyValues::val: the first token that converts to a Val
val(values) == find_map_val(values, 1)

\* the closure of PropertyValues::identifier, on one token
identifier_token(token) ==
    IF token.tok = "Identifier" /\ token.id # "" THEN Some(token.id) ELSE None

RECURSIVE find_map_identifier(_, _)
find_map_identifier(values, i) ==
    IF i > Len(values) THEN None
    ELSE IF identifier_token(values[i]) # None THEN identifier_token(values[i])
    ELSE find_map_identifier(values, i + 1)

\* PropertyValues::identifier: the first identifier token that is not empty
identifier(values) == find_map_identifier(values, 1)

\* UiRect::all
UiRect_all(v) == [top |-> v, right |-> v, bottom |-> v, left |-> v]

\* UiRect::default(): every side Val::Px(0.)
UiRect_default == UiRect_all(Px(0))

\* a fold that counts every token, convertible or not, as a side
RECURSIVE rect_fold_by_position(_, _, _)
rect_fold_by_position(values, i, acc) ==
    IF i > Len(values) THEN acc
    ELSE LET v == val_token(values[i]) IN
         IF v = None
         THEN rect_fold_by_position(values, i + 1, [acc EXCEPT !.idx = @ + 1])
         ELSE LET r == IF acc.rect = None THEN UiRect_default ELSE acc.rect.v
                  r2 == CASE acc.idx = 0 -> [r EXCEPT !.top = v.v]
                          [] acc.idx = 1 -> [r EXCEPT !.right = v.v]
                          [] acc.idx = 2 -> [r EXCEPT !.bottom = v.v]
                          [] acc.idx = 3 -> [r EXCEPT !.left = v.v]
                          [] OTHER -> r
              IN rect_fold_by_position(values, i + 1,
                                       [rect |-> Some(r2), idx |-> acc.idx + 1])

\* a fold that assigns the sides in the order top, left, bottom, right
RECURSIVE rect_fold_counterclockwise(_, _, _)
rect_fold_counterclockwise(values, i, acc) ==
    IF i > Len(values) THEN acc
    ELSE LET v == val_token(values[i]) IN
         IF v = None THEN rect_fold_counterclockwise(values, i + 1, acc)
         ELSE LET r == IF acc.rect = None THEN UiRect_default ELSE acc.rect.v
                  r2 == CASE acc.idx = 0 -> [r EXCEPT !.top = v.v]
                          [] acc.idx = 1 -> [r EXCEPT !.left = v.v]
                          [] acc.idx = 2 -> [r EXCEPT !.bottom = v.v]
                          [] acc.idx = 3 -> [r EXCEPT !.right = v.v]
                          [] OTHER -> r
              IN rect_fold_counterclockwise(values, i + 1,
                                            [rect |-> Some(r2), idx |-> acc.idx + 1])

\* the fold of PropertyValues::rect: acc is (rect, idx)
RECURSIVE rect_fold(_, _, _)
rect_fold(values, i, acc) ==
    IF i > Len(values) THEN acc
    ELSE LET v == val_token(values[i]) IN
         IF v = None THEN rect_fold(values, i + 1, acc)
         ELSE LET r == IF acc.rect = None THEN UiRect_default ELSE acc.rect.v
                  r2 == CASE acc.idx = 0 -> [r EXCEPT !.top = v.v]
                          [] acc.idx = 1 -> [r EXCEPT !.right = v.v]
                          [] acc.idx = 2 -> [r EXCEPT !.bottom = v.v]
                          [] acc.idx = 3 -> [r EXCEPT !.left = v.v]
                          [] OTHER -> r
              IN rect_fold(values, i + 1, [rect |-> Some(r2), idx |-> acc.idx + 1])

\* PropertyValues::rect
rect(values) ==
    IF Len(values) = 1
    THEN (IF val(values) = None THEN None ELSE Some(UiRect_all(val(values).v)))
    ELSE rect_fold(values, 1, [rect |-> None, idx |-> 0]).rect

-----------------------------------------------------------------------------
(* Selector, StyleRule, StyleSheetAsset *)

\* a conjunction of selector elements (capability names)
Sel(atoms) == [any |-> FALSE, atoms |-> atoms]

\* the wildcard selector
SelAny == [any |-> TRUE, atoms |-> {}]

StyleRule(selector, properties) == [selector |-> selector, properties |-> properties]

\* The content texts documents are loaded from and the rules the parser
\* (StyleSheetParser::parse) yields for each:
\*  1: a { width: 10px; margin: 1px 2px 3px 4px; margin-top: 9px; } .b { width: 50%; }
\*  2: a { width: red; margin: 5px; } .b { margin-top: 8px; width: 30%; } a { width: 7px; }
\*  3: * { margin: 2px 6%; } a.b { width: 20px; margin-top: none; }
Corpus ==
    << << StyleRule(Sel({"a"}),
                    [p \in {"width", "margin", "margin-top"} |->
                        CASE p = "width" -> <<Dimension(10)>>
                          [] p = "margin" -> <<Dimension(1), Dimension(2), Dimension(3), Dimension(4)>>
                          [] p = "margin-top" -> <<Dimension(9)>>]),
          StyleRule(Sel({"b"}), [p \in {"width"} |-> <<Percentage(50)>>]) >>,
       << StyleRule(Sel({"a"}),
                    [p \in {"width", "margin"} |->
                        CASE p = "width" -> <<Identifier("red")>>
                          [] p = "margin" -> <<Dimension(5)>>]),
          StyleRule(Sel({"b"}),
                    [p \in {"margin-top", "width"} |->
                        CASE p = "margin-top" -> <<Dimension(8)>>
                          [] p = "width" -> <<Percentage(30)>>]),
          StyleRule(Sel({"a"}), [p \in {"width"} |-> <<Dimension(7)>>]) >>,
       << StyleRule(SelAny, [p \in {"margin"} |-> <<Dimension(2), Percentage(6)>>]),
          StyleRule(Sel({"a", "b"}),
                    [p \in {"width", "margin-top"} |->
                        CASE p = "width" -> <<Dimension(20)>>
                          [] p = "margin-top" -> <<Identifier("none")>>]) >> >>

Texts == DOMAIN Corpus

\* StyleSheetParser::parse: the rules of a content text, in source order
StyleSheetParser_parse(content) == Corpus[content]

\* A hash that takes the origin path instead of the content
ContentHash_of_path(path, content) == (path * 40503 + 12345) % 65536

\* A hash fed the origin path and then the content
ContentHash_path_and_content(path, content) ==
    ((path * 31 + content) * 40503 + 12345) % 65536

\* AHasher::default() fed the content (stylesheet.rs:37-39): a fixed-key hash,
\* a function of the content alone that tells the texts of the corpus apart.
\* The u64 is modelled on 16 bits by a multiplicative hash.
ContentHash(path, content) == (content * 40503 + 12345) % 65536

\* StyleSheetAsset::parse
StyleSheetAsset_parse(path, content) ==
    [path |-> path,
     hash |-> ContentHash(path, content),
     rules |-> StyleSheetParser_parse(content)]

\* Iterator::find on the rules: the index of the first rule with the selector, 0 if none
RECURSIVE find_rule(_, _, _)
find_rule(rules, selector, i) ==
    IF i > Len(rules) THEN 0
    ELSE IF rules[i].selector = selector THEN i
    ELSE find_rule(rules, selector, i + 1)

\* the index of the first rule with the selector that declares name, 0 if none
RECURSIVE find_rule_declaring(_, _, _, _)
find_rule_declaring(rules, selector, name, i) ==
    IF i > Len(rules) THEN 0
    ELSE IF rules[i].selector = selector /\ name \in DOMAIN rules[i].properties THEN i
    ELSE find_rule_declaring(rules, selector, name, i + 1)

\* get_properties that looks for the first rule of the selector declaring name
get_properties_first_declaring(rules, selector, name) ==
    LET i == find_rule_declaring(rules, selector, name, 1) IN
    IF i = 0 THEN None ELSE Some(rules[i].properties[name])

\* StyleSheetAsset::get_properties, on the asset's rules
get_properties(rules, selector, name) ==
    LET i == find_rule(rules, selector, 1) IN
    IF i = 0 THEN None
    ELSE IF name \in DOMAIN rules[i].properties THEN Some(rules[i].properties[name])
    ELSE None

-----------------------------------------------------------------------------
(* PropertyValues::grid_placement and the GridPlacement constructors it calls *)

Slash == [tok |-> "Slash"]

\* the outcome of a call that panics
Panic == [tag |-> "Panic"]

\* `x as i16` and `x as u16`: the casts saturate
as_i16(x) == IF x > 32767 THEN 32767 ELSE IF x < -32768 THEN -32768 ELSE x

as_u16(x) == IF x > 65535 THEN 65535 ELSE IF x < 0 THEN 0 ELSE x

\* GridPlacement::DEFAULT, which GridPlacement::auto returns
GridPlacement_DEFAULT == [start |-> None, span |-> Some(1), end |-> None]

\* the constructors: a line index or a span of 0 is refused with a panic
GridPlacement_start(start) ==
    IF start = 0 THEN Panic ELSE [GridPlacement_DEFAULT EXCEPT !.start = Some(start)]

GridPlacement_end(end) ==
    IF end = 0 THEN Panic ELSE [GridPlacement_DEFAULT EXCEPT !.end = Some(end)]

GridPlacement_span(span) ==
    IF span = 0 THEN Panic ELSE [start |-> None, span |-> Some(span), end |-> None]

GridPlacement_start_end(start, end) ==
    IF start = 0 \/ end = 0 THEN Panic
    ELSE [start |-> Some(start), span |-> None, end |-> Some(end)]

GridPlacement_start_span(start, span) ==
    IF start = 0 \/ span = 0 THEN Panic
    ELSE [start |-> Some(start), span |-> Some(span), end |-> None]

GridPlacement_end_span(end, span) ==
    IF end = 0 \/ span = 0 THEN Panic
    ELSE [start |-> None, span |-> Some(span), end |-> Some(end)]

IsNumber(token) == token.tok = "Number"

IsIdentifier(token, id) == token.tok = "Identifier" /\ token.id = id

\* Some(placement) of the arm the slice matches, None when no arm matches,
\* Panic when the constructor of the arm panics
grid_placement(values) ==
    LET v == values
        arm == CASE Len(v) = 1 /\ IsNumber(v[1]) ->
                      Some(GridPlacement_start(as_i16(v[1].n)))
                 [] Len(v) = 3 /\ IsNumber(v[1]) /\ v[2] = Slash /\ IsNumber(v[3]) ->
                      Some(GridPlacement_start_end(as_i16(v[1].n), as_i16(v[3].n)))
                 [] Len(v) = 3 /\ IsIdentifier(v[1], "auto") /\ v[2] = Slash /\ IsNumber(v[3]) ->
                      Some(GridPlacement_end(as_i16(v[3].n)))
                 [] Len(v) = 3 /\ IsNumber(v[1]) /\ v[2] = Slash /\ IsIdentifier(v[3], "auto") ->
                      Some(GridPlacement_start(as_i16(v[1].n)))
                 [] Len(v) = 1 /\ IsIdentifier(v[1], "auto") ->
                      Some(GridPlacement_DEFAULT)
                 [] Len(v) = 3 /\ IsIdentifier(v[1], "auto") /\ v[2] = Slash
                       /\ IsIdentifier(v[3], "auto") ->
                      Some(GridPlacement_DEFAULT)
                 [] Len(v) = 2 /\ IsIdentifier(v[1], "span") /\ IsNumber(v[2]) ->
                      Some(GridPlacement_span(as_u16(v[2].n)))
                 [] Len(v) = 4 /\ IsIdentifier(v[1], "span") /\ IsNumber(v[2]) /\ v[3] = Slash
                       /\ IsNumber(v[4]) ->
                      Some(GridPlacement_end_span(as_i16(v[4].n), as_u16(v[2].n)))
                 [] Len(v) = 4 /\ IsNumber(v[1]) /\ v[2] = Slash /\ IsIdentifier(v[3], "span")
                       /\ IsNumber(v[4]) ->
                      Some(GridPlacement_start_span(as_i16(v[1].n), as_u16(v[4].n)))
                 [] OTHER -> None
    IN  IF arm = Some(Panic) THEN Panic ELSE arm

-----------------------------------------------------------------------------
(* PropertyValues::grid_template and the conversions of its arguments.  A    *)
(* track is kept as the constructor call that makes it.                      *)

Call(constructor, args) == <<constructor>> \o args

\* the error () of the conversions
Unit == [tag |-> "()"]

\* TryFrom<&PropertyToken> for GridTrackRepetition
GridTrackRepetition_try_from(value) ==
    CASE value.tok = "Number" -> Ok(Call("GridTrackRepetition::Count", <<as_u16(value.n)>>))
      [] IsIdentifier(value, "auto-fill") -> Ok(Call("GridTrackRepetition::AutoFill", <<>>))
      [] IsIdentifier(value, "auto-fit") -> Ok(Call("GridTrackRepetition::AutoFit", <<>>))
      [] OTHER -> Err(Unit)

\* the match both sizing functions make on the token
TrackSizingFunction_try_from(type, value) ==
    CASE value.tok = "Number" -> Ok(Call(type, <<"Px", value.n>>))
      [] value.tok = "Percentage" -> Ok(Call(type, <<"Percent", value.n>>))
      [] value.tok = "VMin" -> Ok(Call(type, <<"VMin", value.n>>))
      [] value.tok = "VMax" -> Ok(Call(type, <<"VMax", value.n>>))
      [] value.tok = "Vh" -> Ok(Call(type, <<"Vh", value.n>>))
      [] value.tok = "Vw" -> Ok(Call(type, <<"Vw", value.n>>))
      [] IsIdentifier(value, "min-content") -> Ok(Call(type, <<"MinContent">>))
      [] IsIdentifier(value, "max-content") -> Ok(Call(type, <<"MaxContent">>))
      [] IsIdentifier(value, "auto") -> Ok(Call(type, <<"Auto">>))
      [] OTHER -> Err(Unit)

\* TryFrom<&PropertyToken> for MinTrackSizingFunction
MinTrackSizingFunction_try_from(value) ==
    TrackSizingFunction_try_from("MinTrackSizingFunction", value)

\* TryFrom<&PropertyToken> for MaxTrackSizingFunction
MaxTrackSizingFunction_try_from(value) ==
    TrackSizingFunction_try_from("MaxTrackSizingFunction", value)

IsCount(repeat) == repeat[1] = "GridTrackRepetition::Count"

\* the match on the second argument of repeat
repeat_track(repeat, track) ==
    CASE track.tok = "Percentage" -> Some(Call("RepeatedGridTrack::percent", <<repeat, track.n>>))
      [] track.tok = "Dimension" -> Some(Call("RepeatedGridTrack::px", <<repeat, track.n>>))
      [] track.tok = "Fr" ->
           IF IsCount(repeat)
           THEN Some(Call("RepeatedGridTrack::fr", <<repeat[2], track.n>>))
           ELSE None
      [] IsIdentifier(track, "auto") ->
           IF IsCount(repeat)
           THEN Some(Call("RepeatedGridTrack::auto", <<repeat[2]>>))
           ELSE None
      [] OTHER -> None

\* the arm of repeat(...)
grid_template_repeat(args) ==
    IF Len(args) # 2 THEN None
    ELSE IF ~GridTrackRepetition_try_from(args[1]).ok THEN None
    ELSE repeat_track(GridTrackRepetition_try_from(args[1]).value, args[2])

\* the arm of fit-content(...)
grid_template_fit_content(args) ==
    IF Len(args) # 1 THEN None
    ELSE CASE args[1].tok = "Dimension" -> Some(Call("GridTrack::fit_content_px", <<args[1].n>>))
           [] args[1].tok = "Percentage" ->
                Some(Call("GridTrack::fit_content_percent", <<args[1].n>>))
           [] OTHER -> None

\* the arm of minmax(...)
grid_template_minmax(args) ==
    IF Len(args) # 2 THEN None
    ELSE IF ~MinTrackSizingFunction_try_from(args[1]).ok THEN None
    ELSE IF ~MaxTrackSizingFunction_try_from(args[2]).ok THEN None
    ELSE Some(Call("GridTrack::minmax", <<MinTrackSizingFunction_try_from(args[1]).value,
                                          MaxTrackSizingFunction_try_from(args[2]).value>>))

\* the closure of the filter_map: Some(track) of the token, None to skip it
grid_template_token(token) ==
    CASE token.tok = "Percentage" -> Some(Call("GridTrack::percent", <<token.n>>))
      [] token.tok = "Dimension" -> Some(Call("GridTrack::px", <<token.n>>))
      [] token.tok = "Fr" -> Some(Call("GridTrack::fr", <<token.n>>))
      [] IsIdentifier(token, "auto") -> Some(Call("GridTrack::auto", <<>>))
      [] token.tok = "Function" /\ token.name = "repeat" -> grid_template_repeat(token.args)
      [] token.tok = "Function" /\ token.name = "fit-content" ->
           grid_template_fit_content(token.args)
      [] token.tok = "Function" /\ token.name = "minmax" -> grid_template_minmax(token.args)
      [] OTHER -> None

\* filter_map(...).collect() from the k-th token on
RECURSIVE grid_template_collect(_, _)
grid_template_collect(values, k) ==
    IF k > Len(values) THEN <<>>
    ELSE IF grid_template_token(values[k]) = None THEN grid_template_collect(values, k + 1)
    ELSE <<grid_template_token(values[k]).v>> \o grid_template_collect(values, k + 1)

\* a grid_template that gives up on the first token it cannot convert
grid_template_all_or_nothing(values) ==
    IF \E k \in DOMAIN values : grid_template_token(values[k]) = None THEN None
    ELSE Some(grid_template_collect(values, 1))

grid_template(values) == Some(grid_template_collect(values, 1))

-----------------------------------------------------------------------------
(* The built-in properties modelled: WidthProperty, MarginProperty and       *)
(* MarginTopProperty (impl_style_single_value and impl_style_rect), which    *)
(* the model registers, GridRowProperty (impl_style_single_value),           *)
(* DisplayProperty (impl_style_enum) and TextAlignProperty                   *)

Properties == {"WidthProperty", "MarginProperty", "MarginTopProperty"}

\* Property::name
name(P) ==
    CASE P = "WidthProperty" -> "width"
      [] P = "MarginProperty" -> "margin"
      [] P = "MarginTopProperty" -> "margin-top"
      [] P = "DisplayProperty" -> "display"
      [] P = "TextAlignProperty" -> "text-align"
      [] P = "GridRowProperty" -> "grid-row"
      [] P = "GridTemplateColumns" -> "grid-template-columns"
      [] P = "GridTemplateRows" -> "grid-template-rows"

InvalidPropertyValue(n) == [kind |-> "InvalidPropertyValue", name |-> n]

\* the properties whose parse calls grid_template
GridTemplateProperties == {"GridTemplateColumns", "GridTemplateRows"}

\* the properties whose parse matches an identifier against keywords
EnumProperties == {"DisplayProperty", "TextAlignProperty"}

\* the match arms of parse: keyword -> cached value.  The cache of
\* TextAlignProperty is an Option<JustifyText>
Keywords(P) ==
    CASE P = "DisplayProperty" ->
           [k \in {"flex", "grid", "none"} |->
               CASE k = "flex" -> "Flex" [] k = "grid" -> "Grid" [] k = "none" -> "None"]
      [] P = "TextAlignProperty" ->
           [k \in {"left", "center", "right"} |->
               CASE k = "left" -> Some("Left")
                 [] k = "center" -> Some("Center")
                 [] k = "right" -> Some("Right")]

\* Ok(val) when the interpreter returned Some(val), the failure carrying the
\* name of the property when it returned None
ok_or_invalid(P, r) ==
    IF r = Panic THEN Panic
    ELSE IF r # None THEN Ok(r.v)
    ELSE Err(InvalidPropertyValue(name(P)))

\* the match on the identifier in the parse of an enumeration property
match_keyword(P, id, keywords) ==
    IF id # None /\ id.v \in DOMAIN keywords
    THEN Ok(keywords[id.v])
    ELSE Err(InvalidPropertyValue(name(P)))

\* Property::parse of the built-in properties
parse(P, values) ==
    CASE P \in EnumProperties -> match_keyword(P, identifier(values), Keywords(P))
      [] P = "MarginProperty" -> ok_or_invalid(P, rect(values))
      [] P = "GridRowProperty" -> ok_or_invalid(P, grid_placement(values))
      [] P \in GridTemplateProperties -> ok_or_invalid(P, grid_template(values))
      [] OTHER -> ok_or_invalid(P, val(values))

\* Text::default(): the field TextAlignProperty writes
Text_default == [justify |-> "Left"]

\* Display::default()
Display_default == "Flex"

\* Style::default(): the fields the modelled properties write
Style_default ==
    [width |-> ValAuto, margin |-> UiRect_default, display |-> Display_default,
     grid_row |-> GridPlacement_DEFAULT]

\* the sum of two Val::Px, the second value otherwise
AddVal(a, b) == IF a.val = "Px" /\ b.val = "Px" THEN Px(a.n + b.n) ELSE b

\* an apply that adds the cached length to the one the field holds
apply_accumulate(P, cache, components) ==
    CASE P = "WidthProperty" ->
           [components EXCEPT !.width = IF cache # None THEN AddVal(@, cache.v) ELSE ValAuto]
      [] P = "MarginProperty" ->
           [components EXCEPT !.margin = IF cache # None
                                         THEN [top |-> AddVal(@.top, cache.v.top),
                                               right |-> AddVal(@.right, cache.v.right),
                                               bottom |-> AddVal(@.bottom, cache.v.bottom),
                                               left |-> AddVal(@.left, cache.v.left)]
                                         ELSE UiRect_default]
      [] P = "MarginTopProperty" ->
           IF cache # None THEN [components EXCEPT !.margin.top = AddVal(@, cache.v)]
           ELSE components
      [] P = "DisplayProperty" ->
           [components EXCEPT !.display = IF cache # None THEN cache.v ELSE Display_default]

\* Property::apply of the built-in properties; cache is an Option
apply(P, cache, components) ==
    CASE P = "WidthProperty" ->
           [components EXCEPT !.width = IF cache # None THEN cache.v ELSE ValAuto]
      [] P = "MarginProperty" ->
           [components EXCEPT !.margin = IF cache # None THEN cache.v ELSE UiRect_default]
      [] P = "MarginTopProperty" ->
           IF cache # None THEN [components EXCEPT !.margin.top = cache.v]
           ELSE components
      [] P = "DisplayProperty" ->
           [components EXCEPT !.display = IF cache # None THEN cache.v ELSE Display_default]
      [] P = "TextAlignProperty" ->
           LET justify == IF cache # None THEN cache.v ELSE Some("Left") IN
           IF justify = None THEN Panic ELSE [components EXCEPT !.justify = justify.v]
      [] P = "GridRowProperty" ->
           [components EXCEPT !.grid_row = IF cache # None THEN cache.v
                                           ELSE GridPlacement_DEFAULT]

-----------------------------------------------------------------------------
(* CacheState and PropertyMeta::get_or_parse *)

CacheNone == [tag |-> "None"]

CacheOk(v) == [tag |-> "Ok", value |-> v]

CacheError == [tag |-> "Error"]

\* HashMap::default()
EmptyMap == <<>>

\* get_or_parse that starts the hash's map afresh on every call
get_or_parse_fresh_map(P, meta, sheet, selector) ==
    LET values == get_properties(sheet.rules, selector, name(P))
        new_cache == IF values = None THEN CacheNone
                     ELSE IF parse(P, values.v).ok
                          THEN CacheOk(parse(P, values.v).value)
                          ELSE CacheError
    IN [meta |-> [h \in DOMAIN meta \cup {sheet.hash} |->
                     IF h = sheet.hash THEN (selector :> new_cache) ELSE meta[h]],
        state |-> new_cache,
        parsed |-> values # None,
        hit |-> FALSE, panic |-> FALSE]

\* get_or_parse without the contains_key test: every call parses and stores
get_or_parse_always_parse(P, meta, sheet, selector) ==
    LET h == sheet.hash
        m1 == IF h \in DOMAIN meta THEN meta ELSE meta @@ (h :> EmptyMap)
        cached_properties == m1[h]
        values == get_properties(sheet.rules, selector, name(P))
        new_cache == IF values = None THEN CacheNone
                     ELSE IF parse(P, values.v).ok
                          THEN CacheOk(parse(P, values.v).value)
                          ELSE CacheError
    IN [meta |-> [m1 EXCEPT ![h] = [s \in DOMAIN cached_properties \cup {selector} |->
                                       IF s = selector THEN new_cache
                                       ELSE cached_properties[s]]],
        state |-> new_cache,
        parsed |-> values # None,
        hit |-> FALSE, panic |-> FALSE]

\* get_or_parse that stores Error when the declaration is absent
get_or_parse_absent_error(P, meta, sheet, selector) ==
    LET h == sheet.hash
        m1 == IF h \in DOMAIN meta THEN meta ELSE meta @@ (h :> EmptyMap)
        cached_properties == m1[h]
    IN  IF selector \in DOMAIN cached_properties
        THEN [meta |-> m1, state |-> cached_properties[selector], parsed |-> FALSE,
              hit |-> TRUE, panic |-> FALSE]
        ELSE LET values == get_properties(sheet.rules, selector, name(P))
                 new_cache == IF values = None THEN CacheError
                              ELSE IF parse(P, values.v).ok
                                   THEN CacheOk(parse(P, values.v).value)
                                   ELSE CacheError
             IN [meta |-> [m1 EXCEPT ![h] = cached_properties @@ (selector :> new_cache)],
                 state |-> new_cache,
                 parsed |-> values # None,
                 hit |-> FALSE, panic |-> FALSE]

\* get_or_parse that keeps using the first hash it has stored entries under
get_or_parse_first_hash(P, meta, sheet, selector) ==
    LET h == IF DOMAIN meta = {} THEN sheet.hash
             ELSE CHOOSE k \in DOMAIN meta : \A k2 \in DOMAIN meta : k <= k2
        m1 == IF h \in DOMAIN meta THEN meta ELSE meta @@ (h :> EmptyMap)
        cached_properties == m1[h]
    IN  IF selector \in DOMAIN cached_properties
        THEN [meta |-> m1, state |-> cached_properties[selector], parsed |-> FALSE,
              hit |-> TRUE, panic |-> FALSE]
        ELSE LET values == get_properties(sheet.rules, selector, name(P))
                 new_cache == IF values = None THEN CacheNone
                              ELSE IF parse(P, values.v).ok
                                   THEN CacheOk(parse(P, values.v).value)
                                   ELSE CacheError
             IN [meta |-> [m1 EXCEPT ![h] = cached_properties @@ (selector :> new_cache)],
                 state |-> new_cache,
                 parsed |-> values # None,
                 hit |-> FALSE, panic |-> FALSE]

\* HashMap::get
HashMap_get(map, key) == IF key \in DOMAIN map THEN Some(map[key]) ELSE None

\* what get_or_parse returns once `cached_properties.get(selector)` gave got:
\* the map after the call, the state returned, whether Property::parse was
\* called, whether the entry was there already and whether the unwrap found
\* no value
unwrap_entry(meta, got, parsed, hit) ==
    [meta |-> meta,
     state |-> IF got = None THEN CacheNone ELSE got.v,
     parsed |-> parsed,
     hit |-> hit,
     panic |-> got = None]

\* the CacheState made of what `.map(|values| match T::parse(values) ..)` gives
new_cache_state(result) ==
    IF result = None THEN CacheNone
    ELSE IF result.v.ok THEN CacheOk(result.v.value)
    ELSE CacheError

\* cached_properties.insert(selector, new_cache), then get(selector).unwrap()
insert_and_get(meta, h, after, selector, parsed) ==
    unwrap_entry([meta EXCEPT ![h] = after], HashMap_get(after, selector), parsed, FALSE)

\* the else branch of get_or_parse; a panic of parse leaves the function
parse_and_insert(P, meta, h, selector, result) ==
    IF result = Some(Panic)
    THEN [meta |-> meta, state |-> CacheNone, parsed |-> TRUE, hit |-> FALSE,
          panic |-> TRUE]
    ELSE insert_and_get(meta, h, meta[h] @@ (selector :> new_cache_state(result)),
                        selector, result # None)

\* get_properties(selector, T::name()).map(T::parse)
map_parse(P, values) ==
    IF values = None THEN None ELSE Some(parse(P, values.v))

\* self.entry(rules.hash()).or_default()
entry_or_default(meta, h) ==
    IF h \in DOMAIN meta THEN meta ELSE meta @@ (h :> EmptyMap)

\* the body of get_or_parse on the map that has an entry for the hash
get_or_parse_entry(P, m1, sheet, selector) ==
    IF selector \in DOMAIN m1[sheet.hash]
    THEN unwrap_entry(m1, HashMap_get(m1[sheet.hash], selector), FALSE, TRUE)
    ELSE parse_and_insert(P, m1, sheet.hash, selector,
             map_parse(P, get_properties(sheet.rules, selector, name(P))))

\* PropertyMeta::get_or_parse
get_or_parse(P, meta, sheet, selector) ==
    get_or_parse_entry(P, entry_or_default(meta, sheet.hash), sheet, selector)

-----------------------------------------------------------------------------
(* The host world: assets, entities, capabilities *)

AssetIds == {1, 2}

\* the asset path of an asset id, as a code of the file name
PathOf(id) == 100 + id

\* the handles the StyleSheet component of the root node holds, in order
Handles == <<1, 2>>

Entities == {1, 2, 3}

\* type and class names entities may carry
Capabilities == {"a", "b"}

\* the entities whose capabilities the host changes while the program runs
HostEntities == {1}

NoAsset == [tag |-> "NoAsset"]

NoStyle == [tag |-> "NoStyle"]

\* the elements of a set of entities in ascending order
RECURSIVE SortedSeq(_)
SortedSeq(S) ==
    IF S = {} THEN <<>>
    ELSE LET m == CHOOSE x \in S : \A y \in S : x <= y IN <<m>> \o SortedSeq(S \ {m})

SeqToSet(q) == {q[i] : i \in DOMAIN q}

-----------------------------------------------------------------------------
(* StyleSheetState and the selector matcher *)

\* one element of StyleSheetState: (AssetId, TrackedEntities, SelectedEntities)
SheetEntry(id, tracked, selected) ==
    [asset_id |-> id, tracked |-> tracked, selected |-> selected]

\* StyleSheetState::has_any_selected_entities
has_any_selected_entities(state) ==
    \E i \in DOMAIN state : state[i].selected # <<>>

\* clear_selected_entities that leaves the selected entities in place
clear_selected_entities_noop(state) == state

\* StyleSheetState::clear_selected_entities
clear_selected_entities(state) ==
    [i \in DOMAIN state |-> [state[i] EXCEPT !.selected = <<>>]]

\* a matcher that takes the entities carrying any one of the atoms
Matched_any_atom(selector, tracked) ==
    IF selector.any THEN UNION {tracked[c] : c \in DOMAIN tracked}
    ELSE {e \in Entities : \E c \in selector.atoms : c \in DOMAIN tracked /\ e \in tracked[c]}

\* the entities a selector matches: the intersection of the tracked sets of its
\* atoms, every tracked entity for the wildcard
Matched(selector, tracked) ==
    IF selector.any THEN UNION {tracked[c] : c \in DOMAIN tracked}
    ELSE {e \in Entities : \A c \in selector.atoms : c \in DOMAIN tracked /\ e \in tracked[c]}

\* the distinct selectors of a rule list, in order of first occurrence
RECURSIVE DistinctSelectors(_, _, _)
DistinctSelectors(rules, i, acc) ==
    IF i > Len(rules) THEN acc
    ELSE IF rules[i].selector \in {acc[j].selector : j \in DOMAIN acc}
         THEN DistinctSelectors(rules, i + 1, acc)
         ELSE DistinctSelectors(rules, i + 1, Append(acc, rules[i]))

\* a relevance test that looks at the atoms only, so that no change concerns
\* the wildcard
Relevant_atoms_only(selector, changed) == selector.atoms \cap changed # {}

\* whether a change of the capabilities in changed concerns the selector
Relevant(selector, changed) ==
    IF selector.any THEN changed # {} ELSE selector.atoms \cap changed # {}

\* the entry of asset id in the state, a fresh one when it has none
EntryOf(state, id) ==
    IF \E i \in DOMAIN state : state[i].asset_id = id
    THEN state[CHOOSE i \in DOMAIN state : state[i].asset_id = id]
    ELSE SheetEntry(id, EmptyMap, <<>>)

\* prepare: refresh the list of live documents, the handles whose asset is loaded
RECURSIVE prepare_state(_, _, _, _)
prepare_state(state, assetMap, i, acc) ==
    IF i > Len(Handles) THEN acc
    ELSE IF assetMap[Handles[i]] = NoAsset
         THEN prepare_state(state, assetMap, i + 1, acc)
         ELSE prepare_state(state, assetMap, i + 1, Append(acc, EntryOf(state, Handles[i])))

\* the tracked map refreshed for the capabilities that changed
refresh_tracked(tracked, capMap, changed, all) ==
    [c \in Capabilities |->
        IF all \/ c \in changed \/ c \notin DOMAIN tracked
        THEN {e \in Entities : c \in capMap[e]}
        ELSE tracked[c]]

\* the selected list of one document after the match phase: a selector a change
\* concerns is recomputed, any other keeps the entry it has, if it has one
RECURSIVE refresh_selected(_, _, _, _, _, _, _)
refresh_selected(sels, i, old, tracked, changed, all, acc) ==
    IF i > Len(sels) THEN acc
    ELSE LET s == sels[i].selector IN
         IF all \/ Relevant(s, changed)
         THEN refresh_selected(sels, i + 1, old, tracked, changed, all,
                  Append(acc, [selector |-> s, entities |-> SortedSeq(Matched(s, tracked))]))
         ELSE IF \E j \in DOMAIN old : old[j].selector = s
         THEN refresh_selected(sels, i + 1, old, tracked, changed, all,
                  Append(acc, old[CHOOSE j \in DOMAIN old : old[j].selector = s]))
         ELSE refresh_selected(sels, i + 1, old, tracked, changed, all, acc)

\* watch_tracked_entities: the incremental refresh of every live document
watch_state(state, assetMap, capMap, changed, pending) ==
    [i \in DOMAIN state |->
        LET id == state[i].asset_id
            all == id \in pending
            tracked == refresh_tracked(state[i].tracked, capMap, changed, all)
        IN IF assetMap[id] = NoAsset THEN state[i]
           ELSE SheetEntry(id, tracked,
                    refresh_selected(DistinctSelectors(assetMap[id].rules, 1, <<>>), 1,
                                     state[i].selected, tracked, changed, all, <<>>))]

-----------------------------------------------------------------------------
(* Property::apply_system *)

\* one more call of parse in the bag of calls (a call counted at most twice)
CountParse(calls, call) ==
    IF BagIn(call, calls) /\ CopiesIn(call, calls) >= 2 THEN calls
    ELSE calls (+) SetToBag({call})

\* the inner loop that stops at the first entity the query does not hold
RECURSIVE apply_entities_break(_, _, _, _, _, _)
apply_entities_break(P, cached, ctx, entities, i, acc) ==
    IF i > Len(entities) THEN acc
    ELSE LET entity == entities[i] IN
         IF acc.style[entity] # NoStyle
         THEN apply_entities_break(P, cached, ctx, entities, i + 1,
                  [acc EXCEPT !.style[entity] = apply(P, Some(cached), acc.style[entity]),
                              !.log = Append(acc.log,
                                  [property |-> P, asset_id |-> ctx.asset_id,
                                   selector |-> ctx.selector, entity |-> entity,
                                   value |-> cached])])
         ELSE acc

\* the inner loop run over every entity the query holds instead of the
\* entities of the selector
RECURSIVE apply_entities_all(_, _, _, _, _, _)
apply_entities_all(P, cached, ctx, entities, i, acc) ==
    IF i > Cardinality(Entities) THEN acc
    ELSE LET entity == SortedSeq(Entities)[i] IN
         IF acc.style[entity] # NoStyle
         THEN apply_entities_all(P, cached, ctx, entities, i + 1,
                  [acc EXCEPT !.style[entity] = apply(P, Some(cached), acc.style[entity]),
                              !.log = Append(acc.log,
                                  [property |-> P, asset_id |-> ctx.asset_id,
                                   selector |-> ctx.selector, entity |-> entity,
                                   value |-> cached])])
         ELSE apply_entities_all(P, cached, ctx, entities, i + 1, acc)

\* the accumulator after apply returned applied for the entity, or after the
\* expect in apply panicked
applied_to(P, cached, ctx, entity, acc, applied) ==
    IF applied = Panic
    THEN [acc EXCEPT !.panic = TRUE]
    ELSE [acc EXCEPT !.style[entity] = applied,
                     !.log = Append(acc.log,
                                 [property |-> P, asset_id |-> ctx.asset_id,
                                  selector |-> ctx.selector, entity |-> entity,
                                  value |-> cached])]

\* for entity in entities: q_nodes.get_mut(entity) is Ok for an entity that has
\* a Style and a Node; apply gets the cached value; a panic ends the loop
RECURSIVE apply_entities(_, _, _, _, _, _)
apply_entities(P, cached, ctx, entities, i, acc) ==
    IF i > Len(entities) \/ acc.panic THEN acc
    ELSE IF acc.style[entities[i]] # NoStyle
    THEN apply_entities(P, cached, ctx, entities, i + 1,
             applied_to(P, cached, ctx, entities[i], acc,
                        apply(P, Some(cached), acc.style[entities[i]])))
    ELSE apply_entities(P, cached, ctx, entities, i + 1, acc)

\* the accumulator after get_or_parse returned r for the selector: the cache,
\* the calls of parse and the entries found
looked_up(P, rules, content, selector, acc, r) ==
    [acc EXCEPT !.meta = r.meta,
                !.parses = IF r.parsed
                           THEN CountParse(acc.parses,
                                    [property |-> P, hash |-> rules.hash,
                                     content |-> content, selector |-> selector])
                           ELSE acc.parses,
                !.hits = IF r.hit
                         THEN acc.hits \cup {[property |-> P, hash |-> rules.hash,
                                              selector |-> selector]}
                         ELSE acc.hits,
                !.panic = acc.panic \/ r.panic]

\* the loop over the selected list that gives up at the first selector whose
\* state is not Ok
RECURSIVE apply_selected_stop(_, _, _, _, _, _, _)
apply_selected_stop(P, rules, id, content, selected, j, acc) ==
    IF j > Len(selected) THEN acc
    ELSE LET selector == selected[j].selector
             r == get_or_parse(P, acc.meta, rules, selector)
             acc1 == looked_up(P, rules, content, selector, acc, r)
         IN IF r.state.tag = "Ok"
            THEN apply_selected_stop(P, rules, id, content, selected, j + 1,
                     apply_entities(P, r.state.value,
                                    [asset_id |-> id, selector |-> selector],
                                    selected[j].entities, 1, acc1))
            ELSE acc1

\* the body of the loop over the selected list, r being what get_or_parse
\* returned: the entities are gone through when r is CacheState::Ok
selected_entities(P, id, entry, r, acc1) ==
    IF ~acc1.panic /\ r.state.tag = "Ok"
    THEN apply_entities(P, r.state.value,
                        [asset_id |-> id, selector |-> entry.selector],
                        entry.entities, 1, acc1)
    ELSE acc1

\* one turn of the loop over the selected list
apply_selector(P, rules, id, content, entry, acc, r) ==
    selected_entities(P, id, entry, r,
                      looked_up(P, rules, content, entry.selector, acc, r))

\* for (selector, entities) in selected: apply the value get_or_parse returns
\* when it is CacheState::Ok; a panic ends the system
RECURSIVE apply_selected(_, _, _, _, _, _, _)
apply_selected(P, rules, id, content, selected, j, acc) ==
    IF j > Len(selected) \/ acc.panic THEN acc
    ELSE apply_selected(P, rules, id, content, selected, j + 1,
             apply_selector(P, rules, id, content, selected[j], acc,
                            get_or_parse(P, acc.meta, rules, selected[j].selector)))

\* for (asset_id, _, selected) in apply_sheets: skip an asset that is not loaded
RECURSIVE apply_sheets(_, _, _, _, _, _)
apply_sheets(P, assetMap, sourceMap, state, k, acc) ==
    IF k > Len(state) \/ acc.panic THEN acc
    ELSE LET id == state[k].asset_id IN
         IF assetMap[id] # NoAsset
         THEN apply_sheets(P, assetMap, sourceMap, state, k + 1,
                  apply_selected(P, assetMap[id], id, sourceMap[id],
                                 state[k].selected, 1, acc))
         ELSE apply_sheets(P, assetMap, sourceMap, state, k + 1, acc)

-----------------------------------------------------------------------------
(* The schedule: EcssPlugin::build and RegisterProperty *)

\* the schedules of bevy's Main schedule, in the order they run each frame
MainScheduleOrder == <<"First", "PreUpdate", "Update", "PostUpdate", "Last">>

\* the sets with no order configured between them
ChainedSets_unchained == <<>>

\* configure_sets(PreUpdate, (Prepare, ChangeDetection, Apply).chain())
ChainedSets == <<"Prepare", "ChangeDetection", "Apply">>

\* add_systems(schedule, system.in_set(set))
add_systems(schedule, system, set) ==
    [system |-> system, schedule |-> schedule, set |-> set, after |-> None]

\* RegisterProperty::register_property
register_property(T) == add_systems("PreUpdate", T, "Apply")

\* register_property_after that drops the after(After::apply_system)
register_property_after_unordered(T, After) == register_property(T)

\* RegisterProperty::register_property_after
register_property_after(T, After) ==
    [system |-> T, schedule |-> "PreUpdate", set |-> "Apply", after |-> Some(After)]

\* the systems EcssPlugin::build adds, those of register_properties included
App ==
    { add_systems("PreUpdate", "prepare", "Prepare"),
      add_systems("PreUpdate", "watch_tracked_entities", "ChangeDetection"),
      add_systems("PostUpdate", "clear_state", "Cleanup"),
      register_property("WidthProperty"),
      register_property("MarginProperty"),
      register_property_after("MarginTopProperty", "MarginProperty") }

Systems == {c.system : c \in App}

ConfigOf(system) == CHOOSE c \in App : c.system = system

\* the place of x in the sequence q, 0 when it is not in it
IndexIn(q, x) == IF \E i \in DOMAIN q : q[i] = x THEN CHOOSE i \in DOMAIN q : q[i] = x ELSE 0

\* an order between systems that takes the schedules and the chained sets into
\* account and no after(...) of a single system
RunsBefore_sets_only(s1, s2) ==
    LET c1 == ConfigOf(s1)
        c2 == ConfigOf(s2)
    IN \/ IndexIn(MainScheduleOrder, c1.schedule) < IndexIn(MainScheduleOrder, c2.schedule)
       \/ /\ c1.schedule = c2.schedule
          /\ IndexIn(ChainedSets, c1.set) > 0
          /\ IndexIn(ChainedSets, c1.set) < IndexIn(ChainedSets, c2.set)

\* whether the schedule makes system s1 run before system s2 in a frame
RunsBefore(s1, s2) ==
    LET c1 == ConfigOf(s1)
        c2 == ConfigOf(s2)
    IN \/ IndexIn(MainScheduleOrder, c1.schedule) < IndexIn(MainScheduleOrder, c2.schedule)
       \/ /\ c1.schedule = c2.schedule
          /\ \/ /\ IndexIn(ChainedSets, c1.set) > 0
                /\ IndexIn(ChainedSets, c1.set) < IndexIn(ChainedSets, c2.set)
             \/ c2.after = Some(s1)

\* a system may run once every system ordered before it has run in the frame
Ready(system) ==
    /\ system \notin SeqToSet(ran)
    /\ \A s \in Systems : RunsBefore(s, system) => s \in SeqToSet(ran)

-----------------------------------------------------------------------------
(* The state machine *)

\* no asset loaded, entities 1 and 3 hold a Style and a Node, entity 2 none;
\* entity 1 is of type a, entities 2 and 3 are of type a and class b
MainInit ==
    /\ assets = [id \in AssetIds |-> NoAsset]
    /\ source = [id \in AssetIds |-> 0]
    /\ caps = [e \in Entities |->
                  CASE e = 1 -> {"a"} [] e = 2 -> {"a", "b"} [] e = 3 -> {"a", "b"}]
    /\ changedCaps = {}
    /\ pendingDocs = {}
    /\ sheets = <<>>
    /\ local = [P \in Properties |-> EmptyMap]
    /\ style = [e \in Entities |-> IF e = 2 THEN NoStyle ELSE Style_default]
    /\ ran = <<>>
    /\ applyLog = <<>>
    /\ parseCalls = EmptyBag
    /\ cacheHits = {}
    /\ replaced = {}
    /\ panicked = FALSE
    /\ loads = 0
    /\ hostChanges = 0

Init ==
    /\ MainInit
    /\ fnArgs = <<>>
    /\ fnResult = None

\* the asset server loads, or hot-reloads, asset id from a content text
LoadAsset(id, content) ==
    /\ ran = <<>>
    /\ loads < MaxLoads
    /\ assets' = [assets EXCEPT ![id] = StyleSheetAsset_parse(PathOf(id), content)]
    /\ source' = [source EXCEPT ![id] = content]
    /\ pendingDocs' = pendingDocs \cup {id}
    /\ replaced' = IF /\ assets[id] # NoAsset
                      /\ assets[id].hash # ContentHash(PathOf(id), content)
                      /\ \E P \in Properties : assets[id].hash \in DOMAIN local[P]
                   THEN replaced \cup {assets[id].hash}
                   ELSE replaced
    /\ loads' = loads + 1
    /\ UNCHANGED <<caps, changedCaps, sheets, local, style, ran, applyLog,
                   parseCalls, cacheHits, panicked, hostChanges, fnArgs, fnResult>>

\* the host attaches capability c to entity e, or detaches it
HostChange(e, c) ==
    /\ ran = <<>>
    /\ hostChanges < MaxHostChanges
    /\ caps' = [caps EXCEPT ![e] = IF c \in caps[e] THEN caps[e] \ {c}
                                   ELSE caps[e] \cup {c}]
    /\ changedCaps' = changedCaps \cup {c}
    /\ hostChanges' = hostChanges + 1
    /\ UNCHANGED <<assets, source, replaced, panicked, pendingDocs, sheets, local, style, ran,
                   applyLog, parseCalls, cacheHits, loads, fnArgs, fnResult>>

\* the system prepare
Prepare ==
    /\ Ready("prepare")
    /\ sheets' = prepare_state(sheets, assets, 1, <<>>)
    /\ ran' = Append(ran, "prepare")
    /\ UNCHANGED <<assets, source, replaced, panicked, caps, changedCaps, pendingDocs, local, style,
                   applyLog, parseCalls, cacheHits, loads, hostChanges, fnArgs,
                   fnResult>>

\* the system watch_tracked_entities
ChangeDetection ==
    /\ Ready("watch_tracked_entities")
    /\ sheets' = watch_state(sheets, assets, caps, changedCaps, pendingDocs)
    /\ changedCaps' = {}
    /\ pendingDocs' = {}
    /\ ran' = Append(ran, "watch_tracked_entities")
    /\ UNCHANGED <<assets, source, replaced, panicked, caps, local, style, applyLog, parseCalls,
                   cacheHits, loads, hostChanges, fnArgs, fnResult>>

\* an apply pass that takes the matched sets it has applied out of the state
ApplySystem_drains(P) ==
    /\ Ready(P)
    /\ LET out == apply_sheets(P, assets, source, sheets, 1,
                      [meta |-> local[P], style |-> style, log |-> applyLog,
                       parses |-> parseCalls, hits |-> cacheHits,
                       panic |-> panicked])
       IN /\ local' = [local EXCEPT ![P] = out.meta]
          /\ style' = out.style
          /\ applyLog' = out.log
          /\ parseCalls' = out.parses
          /\ cacheHits' = out.hits
          /\ panicked' = out.panic
    /\ sheets' = clear_selected_entities(sheets)
    /\ ran' = Append(ran, P)
    /\ UNCHANGED <<assets, source, replaced, caps, changedCaps, pendingDocs,
                   loads, hostChanges, fnArgs, fnResult>>

\* the system P::apply_system
ApplySystem(P) ==
    /\ Ready(P)
    /\ LET out == apply_sheets(P, assets, source, sheets, 1,
                      [meta |-> local[P], style |-> style, log |-> applyLog,
                       parses |-> parseCalls, hits |-> cacheHits,
                       panic |-> panicked])
       IN /\ local' = [local EXCEPT ![P] = out.meta]
          /\ style' = out.style
          /\ applyLog' = out.log
          /\ parseCalls' = out.parses
          /\ cacheHits' = out.hits
          /\ panicked' = out.panic
    /\ ran' = Append(ran, P)
    /\ UNCHANGED <<assets, source, replaced, caps, changedCaps, pendingDocs, sheets,
                   loads, hostChanges, fnArgs, fnResult>>

\* the system clear_state
Cleanup ==
    /\ Ready("clear_state")
    /\ sheets' = IF has_any_selected_entities(sheets)
                 THEN clear_selected_entities(sheets) ELSE sheets
    /\ ran' = Append(ran, "clear_state")
    /\ UNCHANGED <<assets, source, replaced, panicked, caps, changedCaps, pendingDocs, local, style,
                   applyLog, parseCalls, cacheHits, loads, hostChanges, fnArgs,
                   fnResult>>

\* every system has run: the frame ends and the next one may start
EndFrame ==
    /\ SeqToSet(ran) = Systems
    /\ ran' = <<>>
    /\ applyLog' = <<>>
    /\ cacheHits' = {}
    /\ UNCHANGED <<assets, source, replaced, panicked, caps, changedCaps, pendingDocs, sheets, local,
                   style, parseCalls, loads, hostChanges, fnArgs, fnResult>>

Next ==
    \/ \E id \in AssetIds, content \in Texts : LoadAsset(id, content)
    \/ \E e \in HostEntities, c \in Capabilities : HostChange(e, c)
    \/ Prepare
    \/ ChangeDetection
    \/ \E P \in Properties : ApplySystem(P)
    \/ Cleanup
    \/ EndFrame

Spec == Init /\ [][Next]_vars

-----------------------------------------------------------------------------
(* Vocabulary of the properties *)

\* every hash a loaded document may carry
Hashes == {ContentHash(PathOf(id), t) : id \in AssetIds, t \in Texts}

\* every selector of the corpus
AllSelectors == UNION {{Corpus[t][i].selector : i \in DOMAIN Corpus[t]} : t \in Texts}

HasEntry(P, h, s) == h \in DOMAIN local[P] /\ s \in DOMAIN local[P][h]

\* the cache state of (property, hash, selector): CacheState::None until stored
CacheStateOf(P, h, s) == IF HasEntry(P, h, s) THEN local[P][h][s] ELSE CacheNone

\* how often parse of P was called for selector s of a document of hash h
ParseCountByHash(P, h, s) ==
    BagCardinality([c \in {c \in BagToSet(parseCalls) :
                              c.property = P /\ c.hash = h /\ c.selector = s}
                    |-> parseCalls[c]])

\* how often parse of P was called for selector s of a document of content t
ParseCountByContent(P, t, s) ==
    BagCardinality([c \in {c \in BagToSet(parseCalls) :
                              c.property = P /\ c.content = t /\ c.selector = s}
                    |-> parseCalls[c]])

\* the apply pass of P has run in the current frame
PassDone(P) == P \in SeqToSet(ran)

\* the matched sets of the frame are still in place
BeforeCleanup == "clear_state" \notin SeqToSet(ran)

\* the calls of apply P made through selector s of asset id in the current frame
AppliedThrough(P, id, s) ==
    {i \in DOMAIN applyLog : /\ applyLog[i].property = P
                             /\ applyLog[i].asset_id = id
                             /\ applyLog[i].selector = s}

\* the (entry, selected) index pairs of the live documents whose asset is loaded
LiveSelected ==
    {k \in (DOMAIN sheets) \X (1..8) :
        /\ assets[sheets[k[1]].asset_id] # NoAsset
        /\ k[2] \in DOMAIN sheets[k[1]].selected}

LiveAsset(k) == assets[sheets[k[1]].asset_id]

LiveSel(k) == sheets[k[1]].selected[k[2]]

-----------------------------------------------------------------------------
(* C1: parse of a property is invoked at most once per (document hash,       *)
(* selector), over any sequence of cycles and matched sets; a pass that      *)
(* finds an entry stored for the pair calls no parse for it and leaves the   *)
(* entry as it is, whatever its state.                                       *)

C1_ParseAtMostOnce ==
    /\ [](\A P \in Properties, h \in Hashes, s \in AllSelectors :
             ParseCountByHash(P, h, s) <= 1)
    /\ [][\A P \in Properties, h \in Hashes, s \in AllSelectors :
             HasEntry(P, h, s) =>
                /\ HasEntry(P, h, s)'
                /\ local'[P][h][s] = local[P][h][s]
                /\ ParseCountByHash(P, h, s)' = ParseCountByHash(P, h, s)]_vars

\* with one document loaded, a stored entry of each state (None, Ok, Error) was
\* read by a pass of a later frame, the Ok and Error ones after exactly one parse
C1_Witness ==
    \E h \in Hashes :
       /\ assets[2] = NoAsset
       /\ \E P \in Properties, s \in AllSelectors :
             /\ [property |-> P, hash |-> h, selector |-> s] \in cacheHits
             /\ CacheStateOf(P, h, s).tag = "Ok"
             /\ ParseCountByHash(P, h, s) = 1
       /\ \E P \in Properties, s \in AllSelectors :
             /\ [property |-> P, hash |-> h, selector |-> s] \in cacheHits
             /\ CacheStateOf(P, h, s).tag = "Error"
             /\ ParseCountByHash(P, h, s) = 1
       /\ \E P \in Properties, s \in AllSelectors :
             /\ [property |-> P, hash |-> h, selector |-> s] \in cacheHits
             /\ CacheStateOf(P, h, s).tag = "None"
             /\ HasEntry(P, h, s)

-----------------------------------------------------------------------------
(* C2: the cache state of a (hash, selector, property) triple only moves     *)
(* from None to Ok or from None to Error: an Ok entry stays Ok with the      *)
(* same value and an Error entry stays Error.                                *)

C2_CacheStateMonotone ==
    [][\A P \in Properties, h \in Hashes, s \in AllSelectors :
          \/ CacheStateOf(P, h, s)' = CacheStateOf(P, h, s)
          \/ /\ CacheStateOf(P, h, s).tag = "None"
             /\ CacheStateOf(P, h, s)'.tag \in {"Ok", "Error"}]_vars

\* after the document of asset 1 was replaced, the entries of the replaced
\* hash are still there, one Ok and one Error
C2_Witness ==
    /\ assets[2] = NoAsset
    /\ assets[1] # NoAsset
    /\ \E h \in Hashes, P \in Properties, Q \in Properties, s \in AllSelectors :
          /\ h # assets[1].hash
          /\ CacheStateOf(P, h, s).tag = "Ok"
          /\ CacheStateOf(Q, h, s).tag = "Error"
          /\ cacheHits # {}

-----------------------------------------------------------------------------
(* C3: every value an apply pass hands to apply for property P through       *)
(* selector S of document D is the result of P.parse on the declaration      *)
(* D.get_properties(S, P.name) of the document live in that cycle, also      *)
(* after the document was replaced by one of different content.              *)

C3_AppliedValueIsCurrent ==
    \A i \in DOMAIN applyLog :
       LET c == applyLog[i]
           D == assets[c.asset_id]
       IN /\ D # NoAsset
          /\ get_properties(D.rules, c.selector, name(c.property)) # None
          /\ parse(c.property,
                   get_properties(D.rules, c.selector, name(c.property)).v)
                = Ok(c.value)

\* asset 1, the only one loaded, was replaced: its pass applies a value while
\* the cache still holds another Ok value for the selector under the old hash
C3_Witness ==
    /\ assets[2] = NoAsset
    /\ \E i \in DOMAIN applyLog, h \in Hashes :
          LET c == applyLog[i] IN
          /\ c.asset_id = 1
          /\ h # assets[1].hash
          /\ CacheStateOf(c.property, h, c.selector).tag = "Ok"
          /\ CacheStateOf(c.property, h, c.selector).value # c.value

-----------------------------------------------------------------------------
(* C4: the document hash is computed from the content text only: documents   *)
(* parsed from identical text have the same hash whatever their path, and a  *)
(* second document or a reload with identical text causes no new call of a   *)
(* property's parse.                                                         *)

C4_SameTextSameHashNoReparse ==
    /\ \A i \in AssetIds, j \in AssetIds :
          (assets[i] # NoAsset /\ assets[j] # NoAsset /\ source[i] = source[j])
             => assets[i].hash = assets[j].hash
    /\ \A P \in Properties, t \in Texts, s \in AllSelectors :
          ParseCountByContent(P, t, s) <= 1

\* two assets of different paths hold the same text; one pass applied the
\* value through both, the second from the cache, after a single parse
C4_Witness ==
    /\ assets[1] # NoAsset /\ assets[2] # NoAsset
    /\ source[1] = source[2]
    /\ assets[1].path # assets[2].path
    /\ \E P \in Properties, s \in AllSelectors :
          /\ AppliedThrough(P, 1, s) # {}
          /\ AppliedThrough(P, 2, s) # {}
          /\ [property |-> P, hash |-> assets[2].hash, selector |-> s] \in cacheHits
          /\ ParseCountByContent(P, source[1], s) = 1

-----------------------------------------------------------------------------
(* C5: in an apply pass, for each live document and each selector whose      *)
(* cache state is Ok(value), apply is called with that value exactly once    *)
(* for every entity of the selector's matched set that has the facet; an     *)
(* entity without the facet is skipped and the rest of the set still gets    *)
(* the value.                                                                *)

C5_AppliedToEveryFacetHolder ==
    \A P \in Properties :
       (PassDone(P) /\ BeforeCleanup) =>
          \A k \in LiveSelected :
             LET id == sheets[k[1]].asset_id
                 st == CacheStateOf(P, LiveAsset(k).hash, LiveSel(k).selector)
             IN st.tag = "Ok" =>
                  \A e \in Entities :
                     LET calls == {i \in AppliedThrough(P, id, LiveSel(k).selector) :
                                      applyLog[i].entity = e}
                     IN IF e \in SeqToSet(LiveSel(k).entities) /\ style[e] # NoStyle
                        THEN /\ Cardinality(calls) = 1
                             /\ \A i \in calls : applyLog[i].value = st.value
                        ELSE calls = {}

\* a matched set lists entity 2, which has no Style, before entity 3, which
\* has one: the pass applied the value to entity 3 and not to entity 2
C5_Witness ==
    \E P \in Properties, k \in LiveSelected :
       /\ PassDone(P) /\ BeforeCleanup
       /\ CacheStateOf(P, LiveAsset(k).hash, LiveSel(k).selector).tag = "Ok"
       /\ LiveSel(k).entities = <<1, 2, 3>>
       /\ style[2] = NoStyle
       /\ {applyLog[i].entity :
              i \in AppliedThrough(P, sheets[k[1]].asset_id, LiveSel(k).selector)}
            = {1, 3}

-----------------------------------------------------------------------------
(* C6: a parse error is isolated: when the cache state of (document,         *)
(* selector) is Error the apply pass calls apply on no entity through that   *)
(* selector, and it still applies every other selector of the same document  *)
(* and of every other live document whose state is Ok.                       *)

C6_ErrorIsolated ==
    \A P \in Properties :
       (PassDone(P) /\ BeforeCleanup) =>
          \A k \in LiveSelected :
             CacheStateOf(P, LiveAsset(k).hash, LiveSel(k).selector).tag = "Error" =>
                /\ AppliedThrough(P, sheets[k[1]].asset_id, LiveSel(k).selector) = {}
                /\ \A k2 \in LiveSelected \ {k} :
                      CacheStateOf(P, LiveAsset(k2).hash, LiveSel(k2).selector).tag = "Ok" =>
                         \A e \in SeqToSet(LiveSel(k2).entities) :
                            style[e] # NoStyle =>
                               \E i \in AppliedThrough(P, sheets[k2[1]].asset_id,
                                                       LiveSel(k2).selector) :
                                  applyLog[i].entity = e

\* a selector of the first live document is in Error with entities matched; a
\* later selector of the same document and a selector of the second live
\* document were applied by the same pass
C6_Witness ==
    \E P \in Properties, k \in LiveSelected, k2 \in LiveSelected, k3 \in LiveSelected :
       /\ PassDone(P) /\ BeforeCleanup
       /\ CacheStateOf(P, LiveAsset(k).hash, LiveSel(k).selector).tag = "Error"
       /\ LiveSel(k).entities # <<>>
       /\ k2[1] = k[1] /\ k2[2] > k[2]
       /\ AppliedThrough(P, sheets[k2[1]].asset_id, LiveSel(k2).selector) # {}
       /\ k3[1] > k[1]
       /\ AppliedThrough(P, sheets[k3[1]].asset_id, LiveSel(k3).selector) # {}

-----------------------------------------------------------------------------
(* C7: when the document has no declaration named P.name under a selector    *)
(* that has matched entities, parse is not called, the cache state stored    *)
(* for (hash, selector) after the pass is CacheState::None and apply is      *)
(* called on no entity through that selector.                                *)

C7_AbsentDeclaration ==
    \A P \in Properties :
       (PassDone(P) /\ BeforeCleanup) =>
          \A k \in LiveSelected :
             (/\ LiveSel(k).entities # <<>>
              /\ get_properties(LiveAsset(k).rules, LiveSel(k).selector, name(P)) = None)
             => /\ HasEntry(P, LiveAsset(k).hash, LiveSel(k).selector)
                /\ local[P][LiveAsset(k).hash][LiveSel(k).selector] = CacheNone
                /\ ParseCountByHash(P, LiveAsset(k).hash, LiveSel(k).selector) = 0
                /\ AppliedThrough(P, sheets[k[1]].asset_id, LiveSel(k).selector) = {}

\* a selector with matched entities that hold the facet has no declaration of
\* the property, and the pass has run and applied another selector of the document
C7_Witness ==
    \E P \in Properties, k \in LiveSelected, k2 \in LiveSelected :
       /\ PassDone(P) /\ BeforeCleanup
       /\ \E e \in SeqToSet(LiveSel(k).entities) : style[e] # NoStyle
       /\ get_properties(LiveAsset(k).rules, LiveSel(k).selector, name(P)) = None
       /\ local[P][LiveAsset(k).hash][LiveSel(k).selector] = CacheNone
       /\ k2[1] = k[1]
       /\ AppliedThrough(P, sheets[k2[1]].asset_id, LiveSel(k2).selector) # {}

-----------------------------------------------------------------------------
(* StyleSheetAsset::get_properties as a function of its inputs *)

Pending == [tag |-> "Pending"]

Done(v) == [tag |-> "Done", v |-> v]

\* rules of selector a or .b that declare width, margin, both or neither, the
\* values telling the declarations apart
RuleUniverse ==
    {StyleRule(Sel({c}), [p \in names |-> <<Dimension(n)>>]) :
        c \in Capabilities, names \in SUBSET {"width"}, n \in {10, 20}}
    \cup {StyleRule(Sel({"a"}), [p \in {"margin"} |-> <<Dimension(5)>>])}

\* the sequences over S of length at most n
RECURSIVE SeqsUpTo(_, _)
SeqsUpTo(S, n) ==
    IF n = 0 THEN {<<>>}
    ELSE LET shorter == SeqsUpTo(S, n - 1) IN
         shorter \cup {Append(q, x) : q \in {r \in shorter : Len(r) = n - 1}, x \in S}

GetPropertiesInit ==
    /\ MainInit
    /\ fnArgs \in [rules : SeqsUpTo(RuleUniverse, MaxRules),
                   selector : {Sel({"a"}), Sel({"b"}), SelAny},
                   name : {"width", "margin"}]
    /\ fnResult = Pending

CallGetProperties ==
    /\ fnResult = Pending
    /\ fnResult' = Done(get_properties(fnArgs.rules, fnArgs.selector, fnArgs.name))
    /\ UNCHANGED <<mainVars, fnArgs>>

GetPropertiesNext == CallGetProperties

SpecGetProperties == GetPropertiesInit /\ [][GetPropertiesNext]_vars

-----------------------------------------------------------------------------
(* C8: get_properties(selector, name) consults only the first rule, in       *)
(* source order, whose selector equals the given one: it returns that rule's *)
(* values for name, and nothing when that rule does not declare name, even   *)
(* if a later rule of the same selector does.                                *)

C8_FirstRuleOnly ==
    fnResult # Pending =>
       LET rules == fnArgs.rules
           same == {i \in DOMAIN rules : rules[i].selector = fnArgs.selector}
       IN IF same = {} THEN fnResult = Done(None)
          ELSE LET first == CHOOSE i \in same : \A j \in same : i <= j IN
               IF fnArgs.name \in DOMAIN rules[first].properties
               THEN fnResult = Done(Some(rules[first].properties[fnArgs.name]))
               ELSE fnResult = Done(None)

\* the first rule of the selector does not declare the name, a later rule of
\* the same selector does, and nothing was returned
C8_Witness ==
    /\ fnResult = Done(None)
    /\ \E i \in DOMAIN fnArgs.rules, j \in DOMAIN fnArgs.rules :
          /\ i < j
          /\ fnArgs.rules[i].selector = fnArgs.selector
          /\ fnArgs.rules[j].selector = fnArgs.selector
          /\ fnArgs.name \notin DOMAIN fnArgs.rules[i].properties
          /\ fnArgs.name \in DOMAIN fnArgs.rules[j].properties

-----------------------------------------------------------------------------
(* C9: in every cycle the phases run in the order Prepare, Change-Detection, *)
(* Apply (every registered property's pass), Cleanup: no apply pass runs     *)
(* before the cycle's Change-Detection has run or after its Cleanup.         *)

\* the place of a system's set in the order of the phases
PhaseRank(system) ==
    IndexIn(<<"Prepare", "ChangeDetection", "Apply", "Cleanup">>, ConfigOf(system).set)

C9_PhaseOrder ==
    /\ \A i \in DOMAIN ran, j \in DOMAIN ran :
          i < j => PhaseRank(ran[i]) <= PhaseRank(ran[j])
    /\ \A i \in DOMAIN ran :
          PhaseRank(ran[i]) = 3 =>
             /\ \E j \in 1..(i - 1) : ran[j] = "prepare"
             /\ \E j \in 1..(i - 1) : ran[j] = "watch_tracked_entities"
    /\ \A i \in DOMAIN ran :
          ran[i] = "clear_state" => \A P \in Properties : \E j \in 1..(i - 1) : ran[j] = P

\* a whole cycle has run, its apply passes applied values
C9_Witness ==
    /\ SeqToSet(ran) = Systems
    /\ applyLog # <<>>
    /\ ran[1] = "prepare"
    /\ ran[Len(ran)] = "clear_state"

-----------------------------------------------------------------------------
(* C10: the pass of a property registered with register_property_after runs  *)
(* after the pass of the property it names; so for an entity matched by a    *)
(* margin declaration and a margin-top declaration, in one rule or in rules  *)
(* of different selectors, after the Apply phase the top edge holds the      *)
(* margin-top value and the other three sides those of margin.               *)

\* the last call of apply P on entity e in the current frame, 0 if none
LastApplied(P, e) ==
    LET calls == {i \in DOMAIN applyLog : applyLog[i].property = P /\ applyLog[i].entity = e}
    IN IF calls = {} THEN 0 ELSE CHOOSE i \in calls : \A j \in calls : j <= i

C10_EdgeOverridesComposite ==
    /\ \A i \in DOMAIN ran, j \in DOMAIN ran :
          (ran[i] = "MarginProperty" /\ ran[j] = "MarginTopProperty") => i < j
    /\ PassDone("MarginTopProperty") => PassDone("MarginProperty")
    /\ (PassDone("MarginProperty") /\ PassDone("MarginTopProperty")) =>
          \A e \in Entities :
             (LastApplied("MarginProperty", e) > 0 /\ LastApplied("MarginTopProperty", e) > 0)
             => style[e].margin =
                   [applyLog[LastApplied("MarginProperty", e)].value
                       EXCEPT !.top = applyLog[LastApplied("MarginTopProperty", e)].value]

\* an entity got margin through one selector and margin-top through another,
\* the two values for the top edge differing
C10_Witness ==
    /\ PassDone("MarginProperty") /\ PassDone("MarginTopProperty")
    /\ \E e \in Entities :
          /\ LastApplied("MarginProperty", e) > 0
          /\ LastApplied("MarginTopProperty", e) > 0
          /\ applyLog[LastApplied("MarginProperty", e)].selector
                # applyLog[LastApplied("MarginTopProperty", e)].selector
          /\ applyLog[LastApplied("MarginProperty", e)].asset_id
                = applyLog[LastApplied("MarginTopProperty", e)].asset_id
          /\ applyLog[LastApplied("MarginProperty", e)].value.top
                # applyLog[LastApplied("MarginTopProperty", e)].value
          /\ style[e].margin.top = applyLog[LastApplied("MarginTopProperty", e)].value
          /\ style[e].margin.left = applyLog[LastApplied("MarginProperty", e)].value.left

-----------------------------------------------------------------------------
(* C11: the registration table orders the apply passes: a contract           *)
(* registered with an "apply after" predecessor runs its apply pass after    *)
(* the predecessor's pass in every cycle.  (Amended: two contracts that no   *)
(* "apply after" relates have no fixed order.)                               *)

C11_ApplyAfterOrder ==
    \A P \in Properties, Q \in Properties :
       (ConfigOf(Q).after = Some(P) /\ PassDone(Q)) =>
          /\ PassDone(P)
          /\ IndexIn(ran, P) < IndexIn(ran, Q)

\* the pass of margin-top has run, after the pass of margin, and the pass of
\* width, which no "apply after" relates to them, ran between the two
C11_Witness ==
    /\ PassDone("MarginTopProperty")
    /\ IndexIn(ran, "MarginProperty") < IndexIn(ran, "WidthProperty")
    /\ IndexIn(ran, "WidthProperty") < IndexIn(ran, "MarginTopProperty")

\* C11 as stated: the registration fixes the order of the apply passes of any
\* two distinct contracts, the same in every cycle; at no point of a cycle may
\* either of two passes be the next to run
C11_TotalOrder ==
    \A P \in Properties : \A Q \in Properties \ {P} : ~(Ready(P) /\ Ready(Q))

-----------------------------------------------------------------------------
(* C12: the Cleanup phase empties the matched set of every live document     *)
(* (has_any_selected_entities is false afterwards) and leaves the parse      *)
(* cache of every property, the list of live document ids and the tracked    *)
(* maps unchanged.                                                           *)

C12_CleanupClearsMatchedOnly ==
    [][(ran' = Append(ran, "clear_state")) =>
          /\ ~has_any_selected_entities(sheets')
          /\ \A i \in DOMAIN sheets' : sheets'[i].selected = <<>>
          /\ local' = local
          /\ DOMAIN sheets' = DOMAIN sheets
          /\ \A i \in DOMAIN sheets :
                /\ sheets'[i].asset_id = sheets[i].asset_id
                /\ sheets'[i].tracked = sheets[i].tracked]_vars

\* Cleanup has run in a frame whose passes applied values: two documents are
\* live with tracked entities, no entity is selected and an Ok value is cached
C12_Witness ==
    /\ "clear_state" \in SeqToSet(ran)
    /\ applyLog # <<>>
    /\ Len(sheets) = 2
    /\ \A i \in DOMAIN sheets :
          /\ sheets[i].selected = <<>>
          /\ \E c \in DOMAIN sheets[i].tracked : sheets[i].tracked[c] # {}
    /\ \E P \in Properties, h \in Hashes, s \in AllSelectors :
          CacheStateOf(P, h, s).tag = "Ok"

-----------------------------------------------------------------------------
(* The matched set the state holds for a selector of a live document *)

\* the selectors of the rules of the document of entry i
SelectorsOf(state, assetMap, i) ==
    {assetMap[state[i].asset_id].rules[j].selector :
        j \in DOMAIN assetMap[state[i].asset_id].rules}

\* whether entry i lists selector s
HasMatchedSet(state, i, s) ==
    \E j \in DOMAIN state[i].selected : state[i].selected[j].selector = s

\* the entities entry i lists for selector s, none when it does not list it
MatchedSetOf(state, i, s) ==
    UNION {SeqToSet(state[i].selected[j].entities) :
              j \in {j \in DOMAIN state[i].selected : state[i].selected[j].selector = s}}

-----------------------------------------------------------------------------
(* C13: at the end of the match phase, a selector of a live document has a   *)
(* matched set exactly when its document was loaded or replaced, or a        *)
(* capability relevant to it changed, since the previous match phase, and    *)
(* that matched set equals the set computed from the tracked sets as they    *)
(* are at that moment.  (Amended: in a cycle with no such change the         *)
(* selector has no matched set; Cleanup emptied it and it is left so.)       *)

-----------------------------------------------------------------------------
(* C14: the matched set of a conjunctive selector with atoms A1..An is the   *)
(* intersection of the tracked sets of A1..An, and the matched set of the    *)
(* wildcard selector is every tracked entity, whatever capabilities it       *)
(* carries.                                                                  *)

C14_IntersectionAndWildcard ==
    \A k \in LiveSelected :
       LET s == LiveSel(k).selector
           tracked == sheets[k[1]].tracked
           entities == LiveSel(k).entities
       IN /\ Cardinality(SeqToSet(entities)) = Len(entities)
          /\ \A e \in Entities :
                e \in SeqToSet(entities) <=>
                   IF s.any THEN \E c \in DOMAIN tracked : e \in tracked[c]
                   ELSE \A c \in s.atoms : c \in DOMAIN tracked /\ e \in tracked[c]

\* a live document lists the wildcard with every tracked entity, among them
\* entities that differ in the capabilities they carry, and a selector of two
\* atoms with fewer entities than the tracked set of either atom alone has
C14_Witness ==
    \E k \in LiveSelected, k2 \in LiveSelected :
       /\ k[1] = k2[1]
       /\ LiveSel(k).selector = SelAny
       /\ SeqToSet(LiveSel(k).entities) = {1, 2, 3}
       /\ caps[1] # caps[2]
       /\ LiveSel(k2).selector = Sel({"a", "b"})
       /\ LiveSel(k2).entities # <<>>
       /\ \E c \in {"a", "b"} :
             SeqToSet(LiveSel(k2).entities) # sheets[k[1]].tracked[c]

-----------------------------------------------------------------------------
(* C15: an apply pass never changes the matched sets or the tracked maps:    *)
(* from the end of the match phase until Cleanup, whatever apply does to the *)
(* entities, every matched set stays as it is and no entity leaves one.      *)

C15_ApplyLeavesMatchedSets ==
    [][("watch_tracked_entities" \in SeqToSet(ran) /\ "clear_state" \notin SeqToSet(ran'))
          => /\ sheets' = sheets
             /\ caps' = caps]_vars

\* the three apply passes have run and changed the Style of an entity; the
\* matched sets are still in place
C15_Witness ==
    /\ \A P \in Properties : PassDone(P)
    /\ BeforeCleanup
    /\ has_any_selected_entities(sheets)
    /\ \E i \in DOMAIN applyLog :
          style[applyLog[i].entity] # Style_default

-----------------------------------------------------------------------------
(* C16: an apply pass of property P mutates only entities that are in the    *)
(* matched set of some selector whose cache state for P is Ok; the Style of  *)
(* an entity no selector of a live document matches is left unchanged.       *)

C16_OnlyMatchedMutated ==
    [][\A P \in Properties :
          (ran' = Append(ran, P)) =>
             \A e \in Entities :
                style'[e] # style[e] =>
                   \E k \in LiveSelected :
                      /\ e \in SeqToSet(LiveSel(k).entities)
                      /\ local'[P][LiveAsset(k).hash][LiveSel(k).selector].tag = "Ok"]_vars

\* entity 1 carries no capability and holds a Style; the passes of the frame
\* have set the width of entity 3 and the Style of entity 1 is as it was made
C16_Witness ==
    /\ \A P \in Properties : PassDone(P)
    /\ BeforeCleanup
    /\ caps[1] = {}
    /\ style[1] = Style_default
    /\ \A k \in LiveSelected : 1 \notin SeqToSet(LiveSel(k).entities)
    /\ \E i \in DOMAIN applyLog :
          /\ applyLog[i].entity = 3
          /\ applyLog[i].property = "WidthProperty"
          /\ style[3].width # ValAuto

-----------------------------------------------------------------------------
(* Property::apply as a function of its inputs *)

\* the Val and UiRect values drawn
ValUniverse == {ValAuto, Px(0), Px(10), Percent(50)}

RectUniverse ==
    {UiRect_default, UiRect_all(Px(5)),
     [top |-> Px(1), right |-> Percent(2), bottom |-> Px(3), left |-> ValAuto]}

DisplayUniverse == {"Flex", "Grid", "None"}

\* the cached values a property's parse may yield
CacheUniverse(P) ==
    CASE P \in {"WidthProperty", "MarginTopProperty"} -> ValUniverse
      [] P = "MarginProperty" -> RectUniverse
      [] P = "DisplayProperty" -> DisplayUniverse

StyleUniverse == [width : ValUniverse, margin : RectUniverse, display : DisplayUniverse]

StyleProperties == Properties \cup {"DisplayProperty"}

ApplyInit ==
    /\ MainInit
    /\ fnArgs \in UNION {[P : {P}, cache : CacheUniverse(P), components : StyleUniverse] :
                            P \in StyleProperties}
    /\ fnResult = Pending

\* apply_system hands the cached value and the components of an entity to apply
CallApply ==
    /\ fnResult = Pending
    /\ fnResult' = Done(<<apply(fnArgs.P, Some(fnArgs.cache), fnArgs.components)>>)
    /\ UNCHANGED <<mainVars, fnArgs>>

\* a later pass hands the same cached value and the same entity to apply again
CallApplyAgain ==
    /\ fnResult # Pending
    /\ Len(fnResult.v) = 1
    /\ fnResult' = Done(Append(fnResult.v,
                               apply(fnArgs.P, Some(fnArgs.cache), fnResult.v[1])))
    /\ UNCHANGED <<mainVars, fnArgs>>

ApplyNext == CallApply \/ CallApplyAgain

SpecApply == ApplyInit /\ [][ApplyNext]_vars

-----------------------------------------------------------------------------
(* C17: property application is an idempotent overwrite: applying the same   *)
(* cached value of a built-in property to the same entity a second time      *)
(* leaves the Style exactly as it was after the first application.           *)

C17_ApplyIdempotent ==
    (fnResult # Pending /\ Len(fnResult.v) = 2) => fnResult.v[2] = fnResult.v[1]

\* margin-top was applied twice to a Style whose top margin differed from the
\* cached length: the first application changed the Style, the second did not
C17_Witness ==
    /\ fnResult # Pending
    /\ Len(fnResult.v) = 2
    /\ fnArgs.P = "MarginTopProperty"
    /\ fnArgs.cache = Px(10)
    /\ fnArgs.components.margin.top = Px(1)
    /\ fnResult.v[1] # fnArgs.components
    /\ fnResult.v[2].margin.top = Px(10)

-----------------------------------------------------------------------------
(* The lookups a step makes in the cache of a property *)

\* the hashes of the documents the apply passes of the frame go through
LiveHashes ==
    {assets[sheets[i].asset_id].hash :
        i \in {i \in DOMAIN sheets : assets[sheets[i].asset_id] # NoAsset}}

\* the step reads or creates an entry of P under hash h
LooksUp(P, h) ==
    \/ h \in DOMAIN local'[P] /\ h \notin DOMAIN local[P]
    \/ \E s \in AllSelectors :
          \/ HasEntry(P, h, s)' /\ ~HasEntry(P, h, s)
          \/ /\ [property |-> P, hash |-> h, selector |-> s] \in cacheHits'
             /\ [property |-> P, hash |-> h, selector |-> s] \notin cacheHits

-----------------------------------------------------------------------------
(* C18: an apply pass looks up (reads or creates) cache entries only under   *)
(* the hashes of the documents live in its cycle: once a document has been   *)
(* replaced by a document with a different hash, no later pass looks up an   *)
(* entry under the replaced hash, unless a live document has that hash.      *)
(* (Amended: a document of the replaced content that is live, the same asset *)
(* loaded again or another asset, is looked up under that hash.)             *)

C18_LookupsUnderLiveHashesOnly ==
    [][\A P \in Properties, h \in Hashes :
          LooksUp(P, h) => h \in LiveHashes]_vars

\* the passes of a frame have run over two live documents, after a document
\* was replaced: entries are still stored under the replaced hash, which no
\* live document has, and the passes read entries under another hash
C18_Witness ==
    /\ \A P \in Properties : PassDone(P)
    /\ BeforeCleanup
    /\ Cardinality(LiveHashes) = 2
    /\ \E h \in replaced :
          /\ h \notin LiveHashes
          /\ \E P \in Properties, s \in AllSelectors : HasEntry(P, h, s)
          /\ \A c \in cacheHits : c.hash # h
    /\ \E c \in cacheHits : c.hash \in LiveHashes

\* C18 as stated: once a document has been replaced by a document with a
\* different hash, no later apply pass looks up an entry under the replaced
\* document's hash
C18_ReplacedHashNeverLookedUp ==
    [][\A P \in Properties, h \in replaced : ~LooksUp(P, h)]_vars

-----------------------------------------------------------------------------
(* Property::apply_system of one property over one document, whatever the    *)
(* tokens of the declarations of the property                                *)

\* the properties drawn
PassProperties == {"TextAlignProperty", "GridRowProperty"}

\* the tokens drawn for a declaration of the property
TokenUniverse(P) ==
    CASE P = "TextAlignProperty" ->
           {Identifier("left"), Identifier("center"), Identifier("right"),
            Identifier("justify"), Identifier(""), Number(1), Dimension(10), Percentage(50)}
      [] P = "GridRowProperty" ->
           {Number(0), Number(2), Number(-1), Slash, Identifier("auto"), Identifier("span")}

\* the properties of a rule that declares the property with the values, or
\* that does not declare it
Declaring(P, values) ==
    IF values = None THEN <<>> ELSE [p \in {name(P)} |-> values.v]

\* the properties with the declaration `foo: bar;`, a name no property has,
\* added when unknown
WithUnknown(properties, unknown) ==
    IF unknown THEN properties @@ ("foo" :> <<Identifier("bar")>>) ELSE properties

\* documents `a { <name>: ...; foo: bar; } .b { <name>: ...; }`, with or
\* without the declaration of foo
PassDocs(P) ==
    {<<StyleRule(Sel({"a"}), WithUnknown(Declaring(P, d1), unknown)),
       StyleRule(Sel({"b"}), Declaring(P, d2))>> :
        d1 \in {None} \cup {Some(v) : v \in SeqsUpTo(TokenUniverse(P), MaxTokens)},
        d2 \in {None, Some(<<Identifier("right")>>), Some(<<Number(1)>>)},
        unknown \in BOOLEAN}

\* the component of an entity the query of the property selects
Components_default(P) ==
    IF P = "TextAlignProperty" THEN Text_default ELSE Style_default

\* the document is loaded as asset 1 and the match phase has run; entities 1
\* and 3 hold the component and a Node
PassInit ==
    \E P \in PassProperties :
        /\ assets \in {[id \in AssetIds |->
                           IF id = 1
                           THEN [path |-> PathOf(1), hash |-> ContentHash(PathOf(1), 1),
                                 rules |-> rules]
                           ELSE NoAsset] : rules \in PassDocs(P)}
        /\ source = [id \in AssetIds |-> IF id = 1 THEN 1 ELSE 0]
        /\ caps = [e \in Entities |->
                      CASE e = 1 -> {"a"} [] e = 2 -> {"a", "b"} [] e = 3 -> {"a", "b"}]
        /\ changedCaps = {}
        /\ pendingDocs = {}
        /\ sheets = watch_state(prepare_state(<<>>, assets, 1, <<>>), assets, caps, {}, {1})
        /\ local = [Q \in {P} |-> EmptyMap]
        /\ style = [e \in Entities |-> IF e = 2 THEN NoStyle ELSE Components_default(P)]
        /\ ran = <<>>
        /\ applyLog = <<>>
        /\ parseCalls = EmptyBag
        /\ cacheHits = {}
        /\ replaced = {}
        /\ panicked = FALSE
        /\ loads = 0
        /\ hostChanges = 0
        /\ fnArgs = <<>>
        /\ fnResult = None

\* the system P::apply_system; a panic ends the program
PropertyPass(P) ==
    /\ ~panicked
    /\ Len(ran) < MaxPasses
    /\ LET out == apply_sheets(P, assets, source, sheets, 1,
                      [meta |-> local[P], style |-> style,
                       log |-> applyLog, parses |-> parseCalls, hits |-> cacheHits,
                       panic |-> panicked])
       IN /\ local' = [local EXCEPT ![P] = out.meta]
          /\ style' = out.style
          /\ applyLog' = out.log
          /\ parseCalls' = out.parses
          /\ cacheHits' = out.hits
          /\ panicked' = out.panic
    /\ ran' = Append(ran, P)
    /\ UNCHANGED <<assets, source, replaced, caps, changedCaps, pendingDocs, sheets,
                   loads, hostChanges, fnArgs, fnResult>>

PassNext == \E P \in DOMAIN local : PropertyPass(P)

SpecPass == PassInit /\ [][PassNext]_vars

-----------------------------------------------------------------------------
(* C19: no panic is reachable from malformed input, for every document       *)
(* content, every matched set and every sequence of cycles.                  *)

C19_NoPanic == ~panicked

\* a pass of grid-row has run over a document whose rule a declares
\* `grid-row: 0`
C19_Witness ==
    /\ ran = <<"GridRowProperty">>
    /\ "grid-row" \in DOMAIN assets[1].rules[1].properties
    /\ assets[1].rules[1].properties["grid-row"] = <<Number(0)>>

\* the passes of text-align never panic: the unwrap calls of get_or_parse find
\* the key they look up and the expect of apply finds an inner value, every
\* cached text-align value being one its parse produced
TextAlignNeverPanics ==
    "TextAlignProperty" \in DOMAIN local =>
        /\ ~panicked
        /\ \A h \in DOMAIN local["TextAlignProperty"] :
             \A s \in DOMAIN local["TextAlignProperty"][h] :
                local["TextAlignProperty"][h][s].tag = "Ok"
                   => local["TextAlignProperty"][h][s].value
                         \in {Some("Left"), Some("Center"), Some("Right")}

\* a panic leaves get_or_parse only from the GridPlacement constructors that
\* grid_placement calls with a 0
PanicOnlyFromGridPlacement ==
    panicked =>
        /\ "GridRowProperty" \in DOMAIN local
        /\ \E i \in 1..Len(assets[1].rules) :
              /\ "grid-row" \in DOMAIN assets[1].rules[i].properties
              /\ grid_placement(assets[1].rules[i].properties["grid-row"]) = Panic

-----------------------------------------------------------------------------
(* Property::parse as a function of the property and the token list *)

\* the properties whose parse is called
ParseProperties == Properties \cup EnumProperties \cup {"GridRowProperty"}

\* the tokens the lists are drawn from
ParseTokens ==
    {Percentage(50), Dimension(10), Number(0), Number(2), Slash, Identifier("auto"),
     Identifier(""), Identifier("left"), Identifier("flex"), Identifier("span")}

ParseInit ==
    /\ MainInit
    /\ fnArgs \in [P : ParseProperties, values : SeqsUpTo(ParseTokens, MaxTokens)]
    /\ fnResult = Pending

\* get_or_parse hands the values of the declaration to parse
CallParse ==
    /\ fnResult = Pending
    /\ fnResult' = Done(parse(fnArgs.P, fnArgs.values))
    /\ UNCHANGED <<mainVars, fnArgs>>

ParseNext == CallParse

SpecParse == ParseInit /\ [][ParseNext]_vars

\* the value interpreter the parse of a property that is no enumeration calls
interpreter(P, values) ==
    CASE P = "MarginProperty" -> rect(values)
      [] P = "GridRowProperty" -> grid_placement(values)
      [] OTHER -> val(values)

\* the positions of the non-empty identifiers of a token list
NonEmptyIdentifiers(values) ==
    {k \in 1..Len(values) : values[k].tok = "Identifier" /\ values[k].id # ""}

\* the first non-empty identifier of a list that has one
FirstIdentifier(values) ==
    values[CHOOSE k \in NonEmptyIdentifiers(values) :
              \A j \in NonEmptyIdentifiers(values) : k <= j].id

\* the name a property is declared under
DeclaredName(P) ==
    CASE P = "WidthProperty" -> "width"
      [] P = "MarginProperty" -> "margin"
      [] P = "MarginTopProperty" -> "margin-top"
      [] P = "GridRowProperty" -> "grid-row"
      [] P = "DisplayProperty" -> "display"
      [] P = "TextAlignProperty" -> "text-align"

\* r is what the claim says parse returns for the property and the list
ParseAgrees(P, values, r) ==
    LET fails == r = Err(InvalidPropertyValue(DeclaredName(P))) IN
    IF P \in EnumProperties
    THEN LET noKeyword == \/ NonEmptyIdentifiers(values) = {}
                          \/ FirstIdentifier(values) \notin DOMAIN Keywords(P)
         IN /\ fails <=> noKeyword
            /\ ~noKeyword => r = Ok(Keywords(P)[FirstIdentifier(values)])
    ELSE LET i == interpreter(P, values)
         IN /\ fails <=> i = None
            /\ i # None => (i # Panic /\ r = Ok(i.v))

-----------------------------------------------------------------------------
(* C20: for every built-in property P and every token list, P.parse returns  *)
(* the failure InvalidPropertyValue carrying P's own name exactly when P's   *)
(* value interpreter returns None on the list (an enumeration property: when *)
(* the list has no non-empty identifier or its first non-empty identifier is *)
(* no keyword of the property), and otherwise returns Ok with the            *)
(* interpreter's value.                                                      *)

C20_ParseFailsExactlyOnNone ==
    fnResult # Pending => ParseAgrees(fnArgs.P, fnArgs.values, fnResult.v)

\* grid-row was parsed from the list [Number(0)]: the interpreter did not
\* return None and parse returned neither a failure nor a value
C20_Witness ==
    /\ fnResult # Pending
    /\ fnArgs.P = "GridRowProperty"
    /\ fnArgs.values = <<Number(0)>>
    /\ grid_placement(fnArgs.values) # None
    /\ fnResult.v = Panic

\* wherever the interpreter returns, parse returns what the claim says
ParseAgreesWhereInterpreterReturns ==
    (fnResult # Pending /\ fnResult.v # Panic)
        => ParseAgrees(fnArgs.P, fnArgs.values, fnResult.v)

\* parse panics only for grid-row, on a list grid_placement hands a 0 to a
\* GridPlacement constructor for
ParsePanicsOnlyInGridPlacement ==
    (fnResult # Pending /\ fnResult.v = Panic)
        => (fnArgs.P = "GridRowProperty" /\ grid_placement(fnArgs.values) = Panic)

-----------------------------------------------------------------------------
(* The EcssError values the program makes *)

UnsupportedProperty(n) == [kind |-> "UnsupportedProperty", name |-> n]

\* the errors get_or_parse has logged: the Err of each parse, which it stores
\* as CacheState::Error.  Nothing else in the apply phase makes an EcssError
LoggedErrors ==
    {InvalidPropertyValue(name(P)) :
        P \in {Q \in DOMAIN local :
                 \E h \in DOMAIN local[Q] : \E sel \in DOMAIN local[Q][h] :
                    local[Q][h][sel] = CacheError}}

\* the rules without the declarations of foo
WithoutUnknown(rules) ==
    [i \in DOMAIN rules |->
        StyleRule(rules[i].selector,
                  [p \in DOMAIN rules[i].properties \ {"foo"} |-> rules[i].properties[p]])]

\* what the first pass of P leaves when the document does not declare foo
FirstPassWithoutUnknown(P) ==
    apply_sheets(P, [assets EXCEPT ![1].rules = WithoutUnknown(@)], source, sheets, 1,
        [meta |-> EmptyMap, style |-> [e \in Entities |->
                                         IF e = 2 THEN NoStyle ELSE Components_default(P)],
         log |-> <<>>, parses |-> EmptyBag, hits |-> {}, panic |-> FALSE])

\* the first pass over a document that declares foo leaves the cache and the
\* components as the pass over the document without foo does
UnknownIsInert ==
    \A P \in DOMAIN local :
        (ran = <<P>> /\ "foo" \in DOMAIN assets[1].rules[1].properties)
            => /\ local[P] = FirstPassWithoutUnknown(P).meta
               /\ style = FirstPassWithoutUnknown(P).style
               /\ panicked = FirstPassWithoutUnknown(P).panic

-----------------------------------------------------------------------------
(* C21: a declaration whose property name is registered by no contract       *)
(* (`foo: bar;`) produces an UnsupportedProperty diagnostic carrying that    *)
(* name, causes no crash, and does not prevent any other declaration of the  *)
(* same rule from being parsed and applied to the matched objects.           *)

C21_UnknownPropertyDiagnosed ==
    (ran # <<>> /\ "foo" \in DOMAIN assets[1].rules[1].properties)
        => /\ UnsupportedProperty("foo") \in LoggedErrors
           /\ UnknownIsInert

\* a pass of text-align has run over `a { text-align: center; foo: bar; }`:
\* the entity the rule matches alone is centered and no error was made
C21_Witness ==
    /\ ran = <<"TextAlignProperty">>
    /\ DOMAIN assets[1].rules[1].properties = {"text-align", "foo"}
    /\ assets[1].rules[1].properties["text-align"] = <<Identifier("center")>>
    /\ assets[1].rules[2].properties = <<>>
    /\ style[1].justify = "Center"
    /\ LoggedErrors = {}
    /\ ~panicked

-----------------------------------------------------------------------------
(* The value interpreters of PropertyValues as functions of the token list *)

Color_rgb(r, g, b) == [r |-> r, g |-> g, b |-> b]

\* the named colours the lists are drawn from
NamedColors ==
    "red" :> Color_rgb(255, 0, 0) @@ "lime" :> Color_rgb(0, 255, 0)
        @@ "blue" :> Color_rgb(0, 0, 255)

parse_named_color(colour) ==
    IF colour \in DOMAIN NamedColors THEN Some(NamedColors[colour]) ELSE None

HexDigits ==
    "0" :> 0 @@ "1" :> 1 @@ "2" :> 2 @@ "3" :> 3 @@ "4" :> 4 @@ "5" :> 5 @@ "6" :> 6
        @@ "7" :> 7 @@ "8" :> 8 @@ "9" :> 9 @@ "a" :> 10 @@ "b" :> 11 @@ "c" :> 12
        @@ "d" :> 13 @@ "e" :> 14 @@ "f" :> 15

\* the byte two hex digits write
hex_byte(hi, lo) == 16 * HexDigits[hi] + HexDigits[lo]

\* a hex colour is three or six hex digits; a digit of the short form counts twice
parse_hex_color(hash) ==
    IF \E k \in DOMAIN hash : hash[k] \notin DOMAIN HexDigits THEN None
    ELSE CASE Len(hash) = 6 ->
                Some(Color_rgb(hex_byte(hash[1], hash[2]), hex_byte(hash[3], hash[4]),
                               hex_byte(hash[5], hash[6])))
           [] Len(hash) = 3 ->
                Some(Color_rgb(hex_byte(hash[1], hash[1]), hex_byte(hash[2], hash[2]),
                               hex_byte(hash[3], hash[3])))
           [] OTHER -> None

\* color that looks at the first token of a list of any length
color_first_token(values) ==
    IF Len(values) >= 1
    THEN CASE values[1].tok = "Identifier" -> parse_named_color(values[1].id)
           [] values[1].tok = "Hash" -> parse_hex_color(values[1].hash)
           [] OTHER -> None
    ELSE None

color(values) ==
    IF Len(values) = 1
    THEN CASE values[1].tok = "Identifier" -> parse_named_color(values[1].id)
           [] values[1].tok = "Hash" -> parse_hex_color(values[1].hash)
           [] OTHER -> None
    ELSE None

\* the interpreters called
Interpreters == {"val", "rect", "grid_placement", "color", "grid_template"}

\* the tokens the lists of an interpreter are drawn from
InterpreterTokens(f) ==
    CASE f = "val" ->
           {Percentage(5), Dimension(10), Vh(3), VMin(4), Identifier("auto"),
            Identifier("none"), Number(7)}
      [] f = "rect" ->
           {Percentage(5), Dimension(10), Dimension(2), Dimension(1), Identifier("auto"),
            Number(7)}
      [] f = "grid_placement" ->
           {Number(0), Number(2), Slash, Identifier("auto"), Identifier("span"),
            Identifier("none")}
      [] f = "color" ->
           {Identifier("red"), Identifier("blue"), Identifier("crimsonish"),
            Hash(<<"f", "f", "0", "0", "0", "0">>), Hash(<<"0", "0", "f">>),
            Hash(<<"f", "f", "0", "0", "g", "0">>), Hash(<<"f", "f">>),
            Function("rgba", <<Number(255), Number(0), Number(0), Number(1)>>),
            Number(7), Dimension(10)}
      [] f = "grid_template" ->
           {Percentage(5), Dimension(10), Fr(1), Identifier("auto"), Identifier("none"),
            Number(7),
            Function("repeat", <<Number(2), Dimension(10)>>),
            Function("repeat", <<Identifier("auto-fill"), Percentage(5)>>),
            Function("repeat", <<Number(2), Fr(1)>>),
            Function("repeat", <<Identifier("auto-fit"), Fr(1)>>),
            Function("repeat", <<Number(2), Identifier("auto")>>),
            Function("repeat", <<Identifier("auto-fill"), Identifier("auto")>>),
            Function("repeat", <<Dimension(10), Dimension(10)>>),
            Function("repeat", <<Number(2), Number(7)>>),
            Function("repeat", <<Number(2)>>),
            Function("fit-content", <<Dimension(10)>>),
            Function("fit-content", <<Percentage(5)>>),
            Function("fit-content", <<Fr(1)>>),
            Function("fit-content", <<>>),
            Function("minmax", <<Number(7), Identifier("auto")>>),
            Function("minmax", <<Dimension(10), Percentage(5)>>),
            Function("minmax", <<Identifier("auto"), Fr(1)>>),
            Function("minmax", <<Identifier("auto")>>),
            Function("calc", <<Number(7)>>)}

\* the arguments the calls of minmax are drawn from
MinmaxArguments ==
    {Number(7), Dimension(10), Percentage(5), VMin(4), VMax(6), Vh(3), Vw(8), Fr(1),
     Identifier("min-content"), Identifier("max-content"), Identifier("auto")}

\* the longest list drawn for an interpreter
MaxLenOf(f) == IF f \in {"val", "color", "grid_template"} THEN MaxTokens ELSE MaxValues

\* the lists an interpreter is called on: the short lists of its tokens and,
\* for grid_template, every call of minmax on two of the arguments
InterpreterLists(f) ==
    SeqsUpTo(InterpreterTokens(f), MaxLenOf(f))
        \cup IF f = "grid_template"
             THEN {<<Function("minmax", <<min, max>>)>> : min, max \in MinmaxArguments}
             ELSE {}

\* the interpreter f of PropertyValues on the list
interpret(f, values) ==
    CASE f = "val" -> val(values)
      [] f = "rect" -> rect(values)
      [] f = "grid_placement" -> grid_placement(values)
      [] f = "color" -> color(values)
      [] f = "grid_template" -> grid_template(values)

InterpretInit ==
    /\ MainInit
    /\ fnArgs \in UNION {[f : {f}, values : InterpreterLists(f)] : f \in Interpreters}
    /\ fnResult = Pending

\* a parse calls the interpreter on the values of a declaration
CallInterpreter ==
    /\ fnResult = Pending
    /\ fnResult' = Done(interpret(fnArgs.f, fnArgs.values))
    /\ UNCHANGED <<mainVars, fnArgs>>

InterpretNext == CallInterpreter

SpecInterpret == InterpretInit /\ [][InterpretNext]_vars

\* the interpreter f has returned
Returned(f) == fnResult # Pending /\ fnArgs.f = f

\* the Val a length token stands for
LengthOf(token) ==
    CASE token.tok = "Percentage" -> Percent(token.n)
      [] token.tok = "Dimension" -> Px(token.n)
      [] token.tok = "Identifier" -> ValAuto
      [] OTHER -> [val |-> token.tok, n |-> token.n]

\* the tokens rect and val convert: a percentage, a dimension, a viewport
\* length and the identifier auto
IsLength(token) ==
    \/ token.tok \in {"Percentage", "Dimension", "VMin", "VMax", "Vh", "Vw"}
    \/ token.tok = "Identifier" /\ token.id = "auto"

\* the lengths of a list, in order
Lengths(values) == SelectSeq(values, IsLength)

-----------------------------------------------------------------------------
(* C22: rect() maps a list of exactly one length token v to the rectangle    *)
(* with all four sides equal to v, and a list of exactly four length tokens  *)
(* [a, b, c, d] to top = a, right = b, bottom = c, left = d.                 *)

C22_RectOneAndFour ==
    Returned("rect") =>
        LET v == fnArgs.values IN
        /\ (Len(v) = 1 /\ IsLength(v[1]))
              => fnResult.v = Some([top |-> LengthOf(v[1]), right |-> LengthOf(v[1]),
                                    bottom |-> LengthOf(v[1]), left |-> LengthOf(v[1])])
        /\ (Len(v) = 4 /\ \A k \in 1..4 : IsLength(v[k]))
              => fnResult.v = Some([top |-> LengthOf(v[1]), right |-> LengthOf(v[2]),
                                    bottom |-> LengthOf(v[3]), left |-> LengthOf(v[4])])

\* rect has returned top = 10px, right = 5%, bottom = 2px, left = 1px for
\* [10px, 5%, 2px, 1px]
C22_Witness ==
    /\ Returned("rect")
    /\ fnArgs.values = <<Dimension(10), Percentage(5), Dimension(2), Dimension(1)>>
    /\ fnResult.v = Some([top |-> Px(10), right |-> Percent(5), bottom |-> Px(2),
                          left |-> Px(1)])

-----------------------------------------------------------------------------
(* C27: val() returns the conversion of the first token of the list that is  *)
(* a Percentage (to Val::Percent), a Dimension (to Val::Px), a VMin, VMax,   *)
(* Vh or Vw (to the Val of the same name) or the identifier auto (to         *)
(* Val::Auto), and None when the list holds no such token.                   *)

PercentagesAndDimensions(values) ==
    SelectSeq(values, LAMBDA t : t.tok \in {"Percentage", "Dimension"})

-----------------------------------------------------------------------------
(* C28: for a token list whose length is not 1, rect() assigns the first,    *)
(* second, third and fourth convertible length tokens to top, right, bottom  *)
(* and left in that order, skips a non-convertible token without consuming a *)
(* side, ignores convertible tokens after the fourth, leaves every           *)
(* unassigned side at its default, and returns None exactly when the list    *)
(* holds no convertible token.                                               *)

\* the k-th length of the list, the default of a side when there is none
SideOf(values, k) ==
    IF Len(Lengths(values)) >= k THEN LengthOf(Lengths(values)[k]) ELSE Px(0)

C28_RectBestEffort ==
    (Returned("rect") /\ Len(fnArgs.values) # 1) =>
        fnResult.v = IF Lengths(fnArgs.values) = <<>> THEN None
                     ELSE Some([top |-> SideOf(fnArgs.values, 1),
                                right |-> SideOf(fnArgs.values, 2),
                                bottom |-> SideOf(fnArgs.values, 3),
                                left |-> SideOf(fnArgs.values, 4)])

\* rect has returned top = 10px, right = 5% and the default bottom and left
\* for [10px, 7, 5%]: the number took no side
C28_Witness ==
    /\ Returned("rect")
    /\ fnArgs.values = <<Dimension(10), Number(7), Percentage(5)>>
    /\ fnResult.v = Some([top |-> Px(10), right |-> Percent(5), bottom |-> Px(0),
                          left |-> Px(0)])

-----------------------------------------------------------------------------
(* C23: the grid placement interpreter maps [Number s] to start at line s    *)
(* with auto end, [span, Number n] to a span of n tracks and [auto, /,       *)
(* Number e] to auto start with end at line e; it returns a placement only   *)
(* for the nine token shapes its match lists (line, start/end, auto/end,     *)
(* start/auto, auto, auto/auto, span n, span n/end, start/span n) and None   *)
(* for every other token sequence, including the empty one.                  *)

\* a placement: a start line, a span and an end line, each a number or auto
Placement(start, span, end) == [start |-> start, span |-> span, end |-> end]

\* the shape of a token list: the kind of each token
ShapeOf(values) ==
    [k \in DOMAIN values |->
        CASE values[k].tok = "Number" -> "n"
          [] values[k].tok = "Slash" -> "/"
          [] values[k].tok = "Identifier" -> values[k].id
          [] OTHER -> "?"]

\* the placement the claim gives the list, None for a list of another shape
PlacementOf(values) ==
    LET v == values
        shape == ShapeOf(values)
    IN  CASE shape = <<"n">> -> Some(Placement(Some(v[1].n), Some(1), None))
          [] shape = <<"n", "/", "n">> ->
               Some(Placement(Some(v[1].n), None, Some(v[3].n)))
          [] shape = <<"auto", "/", "n">> -> Some(Placement(None, Some(1), Some(v[3].n)))
          [] shape = <<"n", "/", "auto">> -> Some(Placement(Some(v[1].n), Some(1), None))
          [] shape = <<"auto">> -> Some(Placement(None, Some(1), None))
          [] shape = <<"auto", "/", "auto">> -> Some(Placement(None, Some(1), None))
          [] shape = <<"span", "n">> -> Some(Placement(None, Some(v[2].n), None))
          [] shape = <<"span", "n", "/", "n">> ->
               Some(Placement(None, Some(v[2].n), Some(v[4].n)))
          [] shape = <<"n", "/", "span", "n">> ->
               Some(Placement(Some(v[1].n), Some(v[4].n), None))
          [] OTHER -> None

C23_GridPlacementShapes ==
    Returned("grid_placement") => fnResult.v = PlacementOf(fnArgs.values)

\* grid_placement was called on [Number(0)], a list of the first shape, and
\* returned no placement: the constructor panicked
C23_Witness ==
    /\ Returned("grid_placement")
    /\ fnArgs.values = <<Number(0)>>
    /\ fnResult.v = Panic

\* a number of the list is 0
HasZero(values) == \E k \in DOMAIN values : values[k] = Number(0)

\* grid_placement returns what the claim says for every list without a 0, and
\* panics exactly on the lists of one of the nine shapes that hold a 0
GridPlacementShapesWithoutZero ==
    Returned("grid_placement") =>
        /\ ~HasZero(fnArgs.values) => fnResult.v = PlacementOf(fnArgs.values)
        /\ fnResult.v = Panic
              <=> (HasZero(fnArgs.values) /\ PlacementOf(fnArgs.values) # None)

-----------------------------------------------------------------------------
(* C24: the color interpreter returns a colour only when the list holds      *)
(* exactly one token and that token is an identifier naming a known colour   *)
(* or a hash token holding a valid hex colour (`red` and `#ff0000` give the  *)
(* same colour); a function token such as rgba(...), any other single token  *)
(* and any list whose length is not 1 give None.                             *)

\* the token is an identifier naming a known colour
NamesColor(token) == token.tok = "Identifier" /\ token.id \in DOMAIN NamedColors

\* the token is a hash token holding a hex colour
HoldsHexColor(token) ==
    /\ token.tok = "Hash"
    /\ Len(token.hash) \in {3, 6}
    /\ \A k \in DOMAIN token.hash : token.hash[k] \in DOMAIN HexDigits

C24_ColorSingleNamedOrHex ==
    Returned("color") =>
        LET values == fnArgs.values
        IN  /\ fnResult.v # None
                  <=> /\ Len(values) = 1
                      /\ NamesColor(values[1]) \/ HoldsHexColor(values[1])
            /\ values \in {<<Identifier("red")>>, <<Hash(<<"f", "f", "0", "0", "0", "0">>)>>}
                  => fnResult.v = Some(Color_rgb(255, 0, 0))

\* color was called on [#ff0000] and returned the colour red names
C24_Witness ==
    /\ Returned("color")
    /\ fnArgs.values = <<Hash(<<"f", "f", "0", "0", "0", "0">>)>>
    /\ fnResult.v = parse_named_color("red")
    /\ fnResult.v # None

-----------------------------------------------------------------------------
(* C29: grid_template supports minmax(min, max): for every pair of           *)
(* arguments where each is a px length, a percentage, a viewport-unit value  *)
(* (vmin, vmax, vh, vw), min-content, max-content or auto, it produces one   *)
(* minmax track with that minimum and maximum sizing function.               *)

\* the variant of the sizing function a viewport-unit or percentage token or
\* a keyword stands for
VariantOf(token) ==
    CASE token.tok = "Percentage" -> <<"Percent", token.n>>
      [] token.tok \in {"VMin", "VMax", "Vh", "Vw"} -> <<token.tok, token.n>>
      [] IsIdentifier(token, "min-content") -> <<"MinContent">>
      [] IsIdentifier(token, "max-content") -> <<"MaxContent">>
      [] IsIdentifier(token, "auto") -> <<"Auto">>

\* the token is a percentage, a viewport-unit value or one of the keywords
IsSizingKeywordOrUnit(token) ==
    \/ token.tok \in {"Percentage", "VMin", "VMax", "Vh", "Vw"}
    \/ token.tok = "Identifier" /\ token.id \in {"min-content", "max-content", "auto"}

\* the sizing function of the claim: a px length is the token of `10px`, a
\* Dimension
SizingOfLength(type, token) ==
    IF token.tok = "Dimension" THEN Call(type, <<"Px", token.n>>)
    ELSE Call(type, VariantOf(token))

\* the list is one call of minmax on two arguments
IsMinmaxCall(values) ==
    /\ Len(values) = 1
    /\ values[1].tok = "Function"
    /\ values[1].name = "minmax"
    /\ Len(values[1].args) = 2

C29_MinmaxOfSizingArguments ==
    (Returned("grid_template") /\ IsMinmaxCall(fnArgs.values)) =>
        LET min == fnArgs.values[1].args[1]
            max == fnArgs.values[1].args[2]
        IN  (/\ min.tok = "Dimension" \/ IsSizingKeywordOrUnit(min)
             /\ max.tok = "Dimension" \/ IsSizingKeywordOrUnit(max))
                => fnResult.v = Some(<<Call("GridTrack::minmax",
                                            <<SizingOfLength("MinTrackSizingFunction", min),
                                              SizingOfLength("MaxTrackSizingFunction", max)>>)>>)

\* grid_template was called on [minmax(10px, 5%)] and returned no track
C29_Witness ==
    /\ Returned("grid_template")
    /\ fnArgs.values = <<Function("minmax", <<Dimension(10), Percentage(5)>>)>>
    /\ fnResult.v = Some(<<>>)

\* the sizing function the conversion makes: Px comes from a Number
SizingOfNumber(type, token) ==
    IF token.tok = "Number" THEN Call(type, <<"Px", token.n>>)
    ELSE Call(type, VariantOf(token))

\* a call of minmax gives one track exactly when each argument is a plain
\* number, a percentage, a viewport-unit value or one of the keywords, and
\* no track otherwise: a px length as either argument gives no track
MinmaxOfNumbers ==
    (Returned("grid_template") /\ IsMinmaxCall(fnArgs.values)) =>
        LET min == fnArgs.values[1].args[1]
            max == fnArgs.values[1].args[2]
        IN  IF /\ min.tok = "Number" \/ IsSizingKeywordOrUnit(min)
               /\ max.tok = "Number" \/ IsSizingKeywordOrUnit(max)
            THEN fnResult.v = Some(<<Call("GridTrack::minmax",
                                          <<SizingOfNumber("MinTrackSizingFunction", min),
                                            SizingOfNumber("MaxTrackSizingFunction", max)>>)>>)
            ELSE fnResult.v = Some(<<>>)

-----------------------------------------------------------------------------
(* C30: grid_template never returns None: for every token list, the empty    *)
(* list and lists made only of malformed tracks included, it returns a track *)
(* list holding one track per well-formed token in order and nothing for a   *)
(* malformed one; so parse of grid-template-columns and grid-template-rows   *)
(* never yields InvalidPropertyValue and their cache state is never Error.   *)

\* the token is a function call of the name with n arguments
IsCallOf(token, fname, n) ==
    token.tok = "Function" /\ token.name = fname /\ Len(token.args) = n

\* repeat(count, track) or repeat(auto-fill | auto-fit, length)
IsRepeat(token) ==
    /\ IsCallOf(token, "repeat", 2)
    /\ \/ /\ token.args[1].tok = "Number"
          /\ \/ token.args[2].tok \in {"Percentage", "Dimension", "Fr"}
             \/ IsIdentifier(token.args[2], "auto")
       \/ /\ token.args[1].tok = "Identifier"
          /\ token.args[1].id \in {"auto-fill", "auto-fit"}
          /\ token.args[2].tok \in {"Percentage", "Dimension"}

\* a well-formed track: a literal track, a repeat, a fit-content of a length
\* or a percentage, or a minmax of two arguments the conversions take
WellFormedTrack(token) ==
    \/ token.tok \in {"Percentage", "Dimension", "Fr"}
    \/ IsIdentifier(token, "auto")
    \/ IsRepeat(token)
    \/ IsCallOf(token, "fit-content", 1) /\ token.args[1].tok \in {"Dimension", "Percentage"}
    \/ /\ IsCallOf(token, "minmax", 2)
       /\ \A k \in 1..2 : token.args[k].tok = "Number" \/ IsSizingKeywordOrUnit(token.args[k])

C30_GridTemplateNeverNone ==
    Returned("grid_template") =>
        LET values == fnArgs.values
            wellFormed == SelectSeq(values, WellFormedTrack)
        IN  /\ fnResult.v # None
            /\ Len(fnResult.v.v) = Len(wellFormed)
            /\ \A k \in DOMAIN wellFormed :
                  Some(fnResult.v.v[k]) = grid_template_token(wellFormed[k])
            /\ \A P \in GridTemplateProperties :
                  /\ parse(P, values) = Ok(fnResult.v.v)
                  /\ new_cache_state(map_parse(P, Some(values))) = CacheOk(fnResult.v.v)

\* grid_template was called on [repeat(2), 10px], whose first token is
\* malformed, and returned the one track of the second
C30_Witness ==
    /\ Returned("grid_template")
    /\ fnArgs.values = <<Function("repeat", <<Number(2)>>), Dimension(10)>>
    /\ fnResult.v = Some(<<Call("GridTrack::px", <<10>>)>>)
    /\ parse("GridTemplateColumns", fnArgs.values).ok

-----------------------------------------------------------------------------
(* The conversion of the tokens of the parser into PropertyTokens:           *)
(* TryFrom<Token> and TryFrom<ParsedToken> for PropertyToken                 *)

String(s) == [tok |-> "String", s |-> s]

\* the tokens of the tokenizer the conversion matches, and two of the rest
Token_Ident(text) == [token |-> "Ident", val |-> text]

Token_Hash(text) == [token |-> "Hash", hash |-> text]

Token_IDHash(text) == [token |-> "IDHash", hash |-> text]

Token_QuotedString(text) == [token |-> "QuotedString", val |-> text]

Token_Number(value) == [token |-> "Number", value |-> value]

\* unit_value is the fraction num / den
Token_Percentage(num, den) == [token |-> "Percentage", unit_value |-> <<num, den>>]

Token_Dimension(value, unit) == [token |-> "Dimension", value |-> value, unit |-> unit]

Token_Delim(c) == [token |-> "Delim", c |-> c]

Token_WhiteSpace == [token |-> "WhiteSpace"]

Token_Comma == [token |-> "Comma"]

\* ParsedToken: one token, or a function call with its parsed arguments
ParsedToken_Single(tok) == [parsed |-> "Single", tok |-> tok]

ParsedToken_Function(fname, args) == [parsed |-> "Function", name |-> fname, args |-> args]

\* unit_value * 100.0
times_100(unit_value) == (unit_value[1] * 100) \div unit_value[2]

\* the lower-case spelling of the units drawn
to_ascii_lowercase(unit) ==
    CASE unit = "VH" -> "vh"
      [] unit = "Fr" -> "fr"
      [] OTHER -> unit

\* a match on the unit that ignores its case
dimension_ignore_case(value, unit) ==
    CASE to_ascii_lowercase(unit) = "vmin" -> VMin(value)
      [] to_ascii_lowercase(unit) = "vmax" -> VMax(value)
      [] to_ascii_lowercase(unit) = "vh" -> Vh(value)
      [] to_ascii_lowercase(unit) = "vw" -> Vw(value)
      [] to_ascii_lowercase(unit) = "fr" -> Fr(value)
      [] OTHER -> Dimension(value)

\* the match on unit.as_bytes()
dimension(value, unit) ==
    CASE unit = "vmin" -> VMin(value)
      [] unit = "vmax" -> VMax(value)
      [] unit = "vh" -> Vh(value)
      [] unit = "vw" -> Vw(value)
      [] unit = "fr" -> Fr(value)
      [] OTHER -> Dimension(value)

\* a conversion that takes white space for an identifier
try_from_Token_keeps_whitespace(token) ==
    CASE token.token = "Ident" -> Ok(Identifier(token.val))
      [] token.token = "Hash" -> Ok(Hash(token.hash))
      [] token.token = "IDHash" -> Ok(Hash(token.hash))
      [] token.token = "QuotedString" -> Ok(String(token.val))
      [] token.token = "Number" -> Ok(Number(token.value))
      [] token.token = "Percentage" -> Ok(Percentage(times_100(token.unit_value)))
      [] token.token = "Dimension" -> Ok(dimension(token.value, token.unit))
      [] token.token = "Delim" /\ token.c = "/" -> Ok(Slash)
      [] token.token = "WhiteSpace" -> Ok(Identifier(" "))
      [] OTHER -> Err(Unit)

\* TryFrom<Token> for PropertyToken
try_from_Token(token) ==
    CASE token.token = "Ident" -> Ok(Identifier(token.val))
      [] token.token = "Hash" -> Ok(Hash(token.hash))
      [] token.token = "IDHash" -> Ok(Hash(token.hash))
      [] token.token = "QuotedString" -> Ok(String(token.val))
      [] token.token = "Number" -> Ok(Number(token.value))
      [] token.token = "Percentage" -> Ok(Percentage(times_100(token.unit_value)))
      [] token.token = "Dimension" -> Ok(dimension(token.value, token.unit))
      [] token.token = "Delim" /\ token.c = "/" -> Ok(Slash)
      [] token.token = "WhiteSpace" -> Err(Unit)
      [] OTHER -> Err(Unit)

\* TryFrom<ParsedToken> for PropertyToken, and the filter_map over the
\* arguments of a function from the k-th on
RECURSIVE try_from_ParsedToken(_)
RECURSIVE filter_map_try_into(_, _)
try_from_ParsedToken(value) ==
    IF value.parsed = "Single" THEN try_from_Token(value.tok)
    ELSE Ok(Function(value.name, filter_map_try_into(value.args, 1)))

filter_map_try_into(args, k) ==
    IF k > Len(args) THEN <<>>
    ELSE IF try_from_ParsedToken(args[k]).ok
    THEN <<try_from_ParsedToken(args[k]).value>> \o filter_map_try_into(args, k + 1)
    ELSE filter_map_try_into(args, k + 1)

\* the units of the dimensioned numbers drawn
Units == {"vmin", "vmax", "vh", "vw", "fr", "px", "em", "VH", "Fr", "vhs"}

\* the single tokens converted
Tokens ==
    {Token_Dimension(10, unit) : unit \in Units}
        \cup {Token_Ident("red"), Token_Hash(<<"f", "f", "0", "0", "0", "0">>),
              Token_IDHash(<<"a", "b", "c">>), Token_QuotedString("some value"),
              Token_Number(7), Token_Percentage(1, 2), Token_Percentage(1, 1),
              Token_Delim("/"), Token_Delim("+"), Token_WhiteSpace, Token_Comma}

\* the single tokens the arguments of the calls are drawn from
ArgumentTokens == {Token_Ident("red"), Token_WhiteSpace, Token_Comma}

Singles(tokens) == {ParsedToken_Single(tok) : tok \in tokens}

\* the calls of the function on up to MaxTokens of the arguments
CallsOf(fname, arguments) ==
    {ParsedToken_Function(fname, args) : args \in SeqsUpTo(arguments, MaxTokens)}

\* the parsed tokens converted: the single tokens and the calls of calc whose
\* arguments are single tokens and calls of min on single tokens
ParsedTokens ==
    Singles(Tokens)
        \cup CallsOf("calc", Singles(ArgumentTokens) \cup CallsOf("min", Singles(ArgumentTokens)))

ConvertInit ==
    /\ MainInit
    /\ fnArgs \in [f : {"try_from"}, value : ParsedTokens]
    /\ fnResult = Pending

\* the parser converts a parsed token of a declaration
CallTryFrom ==
    /\ fnResult = Pending
    /\ fnResult' = Done(try_from_ParsedToken(fnArgs.value))
    /\ UNCHANGED <<mainVars, fnArgs>>

ConvertNext == CallTryFrom

SpecConvert == ConvertInit /\ [][ConvertNext]_vars

\* the conversion of the parsed token has returned
Converted == fnResult # Pending /\ fnArgs.f = "try_from"

-----------------------------------------------------------------------------
(* C25: converting a dimensioned number classifies its unit                  *)
(* case-sensitively: exactly vmin, vmax, vh, vw and fr give the VMin, VMax,  *)
(* Vh, Vw and Fr tokens with the same numeric value, and every other unit    *)
(* string (px, em and upper-case spellings such as VH included) gives a      *)
(* plain Dimension token with the same numeric value.                        *)

\* the kind of token each of the five units gives
KnownUnits ==
    "vmin" :> "VMin" @@ "vmax" :> "VMax" @@ "vh" :> "Vh" @@ "vw" :> "Vw" @@ "fr" :> "Fr"

C25_UnitsClassifiedCaseSensitively ==
    (/\ Converted
     /\ fnArgs.value.parsed = "Single"
     /\ fnArgs.value.tok.token = "Dimension") =>
        LET unit == fnArgs.value.tok.unit
        IN  /\ fnResult.v.ok
            /\ fnResult.v.value.n = fnArgs.value.tok.value
            /\ fnResult.v.value.tok =
                  IF unit \in DOMAIN KnownUnits THEN KnownUnits[unit] ELSE "Dimension"

\* 10VH was converted and gave the plain Dimension 10
C25_Witness ==
    /\ Converted
    /\ fnArgs.value = ParsedToken_Single(Token_Dimension(10, "VH"))
    /\ fnResult.v = Ok(Dimension(10))

-----------------------------------------------------------------------------
(* C26: a raw token that cannot be classified (white space or any            *)
(* unsupported lexical token) is rejected on its own and never aborts the    *)
(* conversion of the tokens around it: converting a function call always     *)
(* succeeds and yields a Function token whose arguments are exactly the      *)
(* convertible arguments, in their original order, with the unconvertible    *)
(* ones dropped, recursively for nested calls.                               *)

\* the token is one the conversion classifies
Classifiable(token) ==
    \/ token.token \in {"Ident", "Hash", "IDHash", "QuotedString", "Number", "Percentage",
                        "Dimension"}
    \/ token = Token_Delim("/")

\* the parsed token is convertible: a call, or a single classifiable token
Convertible(value) == value.parsed = "Function" \/ Classifiable(value.tok)

\* the token is the conversion of the call: a Function token of the same
\* name whose arguments are the conversions of the convertible arguments
RECURSIVE IsConversionOf(_, _)
IsConversionOf(token, call) ==
    LET kept == SelectSeq(call.args, Convertible)
    IN  /\ token.tok = "Function"
        /\ token.name = call.name
        /\ Len(token.args) = Len(kept)
        /\ \A k \in DOMAIN kept :
              IF kept[k].parsed = "Function"
              THEN IsConversionOf(token.args[k], kept[k])
              ELSE Ok(token.args[k]) = try_from_Token(kept[k].tok)

C26_UnclassifiableRejectedAlone ==
    Converted =>
        IF fnArgs.value.parsed = "Single"
        THEN ~Classifiable(fnArgs.value.tok) => fnResult.v = Err(Unit)
        ELSE /\ fnResult.v.ok
             /\ IsConversionOf(fnResult.v.value, fnArgs.value)

\* calc( , min(, red)) was converted: the white space and the comma were
\* dropped and the nested call and its identifier kept
C26_Witness ==
    /\ Converted
    /\ fnArgs.value =
          ParsedToken_Function("calc",
              <<ParsedToken_Single(Token_WhiteSpace),
                ParsedToken_Function("min", <<ParsedToken_Single(Token_Comma),
                                              ParsedToken_Single(Token_Ident("red"))>>)>>)
    /\ fnResult.v = Ok(Function("calc", <<Function("min", <<Identifier("red")>>)>>))

=============================================================================
